---- MODULE Spec2Model ----
(***************************************************************************)
(* Model of the CFX automation pipeline: the workflow orchestrator, the    *)
(* queue-strategy selection and the generated Submit_All.sh driver, the    *)
(* node allocation engine and the job monitor.                             *)
(***************************************************************************)
EXTENDS Integers, Sequences, FiniteSets, TLC

\* ------------------------------------------------------------------------
\* Bounds
\* ------------------------------------------------------------------------
MaxJobs == 3
MaxNodes == 3
MaxAllocJobs == 3
MaxAllocNodes == 2
MaxCores == 4
MaxMonJobs == 2

\* ------------------------------------------------------------------------
\* State
\* ------------------------------------------------------------------------
VARIABLES
    \* WorkflowOrchestrator (workflow_orchestrator.py)
    config,            \* the configuration fields the orchestrator reads
    validation_errors, \* the errors config.validate() returned
    pressure_list,     \* config.pressure_list
    wf_pc,             \* position inside execute_full_workflow / main
    current_step,      \* execution_state["current_step"]
    completed_steps,   \* execution_state["completed_steps"]
    failed_steps,      \* execution_state["failed_steps"]
    ssh_open,          \* the SSH session is connected
    def_files,         \* result of the generate_def step
    cfx_returncode,    \* exit code of the last local CFX-Pre run (-1: not run)
    report_written,    \* an execution report file was written
    wf_result,         \* how execute_full_workflow ended
    exit_code,         \* process exit code (-1: still running)
    cluster_status,    \* result of the query_cluster step
    generated_scripts, \* result of the generate_scripts step
    submit_log,        \* the jobs the scheduler accepted, in submission order
    submit_output,     \* stdout of Submit_All.sh, line by line
    submitted_jobs,    \* result of the submit_jobs step
    interrupted,       \* the user interrupted monitor_jobs (KeyboardInterrupt)
    monitoring_report, \* "none", "returned" (generated only) or "saved"
    \* ScriptGenerator and the generated Submit_All.sh (script_generator.py)
    scheduler_type,    \* config.scheduler_type
    job_count,         \* len(allocated_jobs)
    available_nodes,   \* _get_available_node_count(cluster_status)
    queue_strategy,    \* generated_scripts["queue_strategy"] ("": not chosen)
    job_scripts,       \* generated_scripts["job_scripts"], as job indices
    submit_script,     \* the command lines of Submit_All.sh
    drv_pc,            \* the line Submit_All.sh is at (0: not started)
    JOB_ID,            \* shell variable JOB_ID, as its words
    JOB_IDS,           \* shell variable JOB_IDS, as its words
    word_idx,          \* position of "for job_id in $JOB_IDS"
    sched,             \* the scheduler's view of each job
    \* NodeAllocationManager (allocation.py)
    alloc_config,      \* partition, exclude_nodes, max_concurrent_jobs
    alloc_nodes,       \* the nodes argument of allocate_nodes
    alloc_jobs,        \* the jobs argument of allocate_nodes
    alloc_strategy,    \* the strategy argument ("": not called yet)
    alloc_result,      \* AllocationResult.jobs, or the error raised
    \* JobMonitor (job_monitor.py) and the cluster it polls
    monitoring,        \* JobMonitor.monitoring
    monitored_jobs,    \* JobMonitor.monitored_jobs
    mon_pc,            \* position inside start_monitoring / monitor_jobs
    auto_download_results, \* config.auto_download_results
    accounting,        \* the cluster's sacct answers (SLURM accounting is on)
    cluster_jobs,      \* the scheduler's record of each submitted job
    \* a function called on its own
    call_args,         \* its arguments
    call_result,       \* its return value
    call_done,         \* it has returned
    \* FileTransferManager (transfer.py) and the files on both sides
    transfer_config,   \* transfer_retry_times, enable_checksum_verification
    direction,         \* "upload" (upload_files) or "download" (download_files)
    file_list,         \* the file_list / remote_files argument
    xfer_pc,           \* position inside upload_files / download_files
    file_idx,          \* the file of the list the loop is at
    attempt,           \* the attempt of the retry loop for that file
    attempted,         \* the positions of the list tried so far, in order
    destination,       \* the bytes at the destination of each path (<<>>: none)
    transferred_files, \* the keys of uploaded_files / downloaded_files
    transfer_stats,    \* the counters of transfer_stats this call added
    last_transfer,     \* attempts made, waits and outcome of the latest file
    \* JobMonitor.monitoring_history, followed on its own
    monitoring_history, \* the snapshots kept, each as the number of its cycle
    \* run --steps: execute_step_only called for each step (main.py)
    step_names,        \* the steps named on the command line
    step_idx,          \* the position of the step execute_step_only runs next
    ssh_client,        \* self.ssh_client: "none", "open" or "closed"
    remote_uses,       \* the states the session was in when a step used it
    steps_result       \* "running", or what run_workflow_steps returned

wfVars == <<config, validation_errors, pressure_list, wf_pc, current_step, completed_steps,
            failed_steps, ssh_open, def_files, cfx_returncode,
            report_written, wf_result, exit_code, cluster_status,
            generated_scripts, submit_log, submit_output, submitted_jobs,
            interrupted, monitoring_report>>

\* the results the steps of execute_full_workflow hand to the later steps
pipeVars == <<cluster_status, generated_scripts, submit_log, submit_output,
              submitted_jobs, interrupted, monitoring_report>>

drvVars == <<scheduler_type, job_count, available_nodes, queue_strategy,
             job_scripts, submit_script, drv_pc, JOB_ID, JOB_IDS, word_idx,
             sched>>

allocVars == <<alloc_config, alloc_nodes, alloc_jobs, alloc_strategy,
               alloc_result>>

monVars == <<monitoring, monitored_jobs, mon_pc, auto_download_results,
             accounting, cluster_jobs>>

callVars == <<call_args, call_result, call_done>>

xferVars == <<transfer_config, direction, file_list, xfer_pc, file_idx,
              attempt, attempted, destination, transferred_files,
              transfer_stats, last_transfer>>

histVars == <<monitoring_history>>

stepVars == <<step_names, step_idx, ssh_client, remote_uses, steps_result>>

vars == <<wfVars, drvVars, allocVars, monVars, callVars, xferVars, histVars,
          stepVars>>

\* the parts of the state each component leaves alone
nonWfVars == <<drvVars, allocVars, monVars, callVars, xferVars, histVars,
               stepVars>>
nonDrvVars == <<wfVars, allocVars, monVars, callVars, xferVars, histVars,
               stepVars>>
nonAllocVars == <<wfVars, drvVars, monVars, callVars, xferVars, histVars,
               stepVars>>
nonMonVars == <<wfVars, drvVars, allocVars, callVars, xferVars, histVars,
               stepVars>>
nonXferVars == <<wfVars, drvVars, allocVars, monVars, callVars, histVars,
                 stepVars>>
nonHistVars == <<wfVars, drvVars, allocVars, monVars, callVars, xferVars,
                 stepVars>>
nonStepVars == <<drvVars, allocVars, monVars, callVars, xferVars, histVars>>

\* ------------------------------------------------------------------------
\* Helpers
\* ------------------------------------------------------------------------
Range(s) == {s[i] : i \in 1..Len(s)}

IsPrefix(s, t) == Len(s) <= Len(t) /\ \A i \in 1..Len(s) : s[i] = t[i]

RECURSIVE SelectSeqIdx(_, _, _)
\* the subsequence of s at the indices of keep, in order
SelectSeqIdx(s, keep, i) ==
    IF i > Len(s) THEN <<>>
    ELSE (IF i \in keep THEN <<s[i]>> ELSE <<>>) \o SelectSeqIdx(s, keep, i + 1)

\* ------------------------------------------------------------------------
\* ScriptGenerator: queue strategy and the default Submit_All.sh
\* ------------------------------------------------------------------------
\* _determine_queue_strategy with "job_count < available_nodes * 2"
DetermineQueueStrategyStrict(jobs, nodes) ==
    IF nodes >= jobs THEN "parallel"
    ELSE IF nodes >= 1
         THEN (IF jobs < nodes * 2 THEN "batch" ELSE "sequential")
         ELSE "sequential"

\* _determine_queue_strategy(job_count, available_nodes)
DetermineQueueStrategy(jobs, nodes) ==
    IF nodes >= jobs THEN "parallel"
    ELSE IF nodes >= 1
         THEN (IF jobs <= nodes * 2 THEN "batch" ELSE "sequential")
         ELSE "sequential"

\* a command line of Submit_All.sh:
\*   submit_bg   "{submit_cmd} {path} &"
\*   wait        "wait"
\*   submit      "JOB_ID=$({submit_cmd} {path})"
\*   wait_job    "while {query_cmd} $JOB_ID &>/dev/null; do sleep 30; done"
\*   append_ids  "JOB_IDS=\"$JOB_IDS $JOB_ID\""
\*   wait_ids    "for job_id in $JOB_IDS; do while {query_cmd} $job_id ...; done"
\*   clear_ids   "JOB_IDS=\"\""
Line(op, job) == [op |-> op, job |-> job]

RECURSIVE ParallelLines(_, _)
\* the parallel branch of _generate_default_submit_script
ParallelLines(scripts, i) ==
    IF i > Len(scripts) THEN <<Line("wait", 0)>>
    ELSE <<Line("submit_bg", scripts[i])>> \o ParallelLines(scripts, i + 1)

RECURSIVE SequentialLines(_, _)
\* the sequential branch of _generate_default_submit_script
SequentialLines(scripts, i) ==
    IF i > Len(scripts) THEN <<>>
    ELSE <<Line("submit", scripts[i])>>
         \o (IF i < Len(scripts) THEN <<Line("wait_job", 0)>> ELSE <<>>)
         \o SequentialLines(scripts, i + 1)

RECURSIVE BatchSubmitLines(_, _, _)
\* the submissions of the batch job_scripts[from..to]
BatchSubmitLines(scripts, from, to) ==
    IF from > to \/ from > Len(scripts) THEN <<>>
    ELSE <<Line("submit", scripts[from]), Line("append_ids", 0)>>
         \o BatchSubmitLines(scripts, from + 1, to)

\* the wait after the last batch is emitted as well as skipped for the others
BatchNeedsWaitInverted(i, batch_size, n) == i + batch_size >= n

\* "if i + batch_size < len(job_scripts)" (i counts scripts from 0)
BatchNeedsWait(i, batch_size, n) == i + batch_size < n

RECURSIVE BatchLines(_, _, _)
\* the batch branch of _generate_default_submit_script, from offset i
BatchLines(scripts, i, batch_size) ==
    IF i >= Len(scripts) THEN <<>>
    ELSE BatchSubmitLines(scripts, i + 1, i + batch_size)
         \o (IF BatchNeedsWait(i, batch_size, Len(scripts))
             THEN <<Line("wait_ids", 0), Line("clear_ids", 0)>> ELSE <<>>)
         \o BatchLines(scripts, i + batch_size, batch_size)

\* _generate_default_submit_script(job_scripts, queue_strategy, available_nodes)
GenerateDefaultSubmitScript(scripts, strategy, nodes) ==
    CASE strategy = "parallel"   -> ParallelLines(scripts, 1)
      [] strategy = "sequential" -> SequentialLines(scripts, 1)
      [] strategy = "batch"      -> BatchLines(scripts, 0, nodes)
      [] OTHER                   -> <<>>

\* ------------------------------------------------------------------------
\* WorkflowOrchestrator.execute_full_workflow
\* ------------------------------------------------------------------------
\* the order of the _execute_step calls in execute_full_workflow
StepOrder == <<"connect_server", "verify_cfx", "generate_pre", "generate_def",
               "query_cluster", "generate_scripts", "upload_files",
               "submit_jobs", "monitor_jobs">>

StepEnabled(c, s) ==
    CASE s = "query_cluster" -> c.enable_node_detection
      [] s = "monitor_jobs"  -> c.enable_monitoring
      [] OTHER               -> TRUE

StepIndex(s) == CHOOSE i \in 1..Len(StepOrder) : StepOrder[i] = s

\* the statement that follows the call of step s when it returns
NextPcMissingGuard(c, s) ==
    IF StepIndex(s) = Len(StepOrder) THEN "report"
    ELSE StepOrder[StepIndex(s) + 1]

NextPc(c, s) ==
    LET later == {i \in (StepIndex(s) + 1)..Len(StepOrder) :
                      StepEnabled(c, StepOrder[i])}
    IN IF later = {} THEN "report"
       ELSE StepOrder[CHOOSE i \in later : \A j \in later : i <= j]

\* _execute_step without the re-raise: the failure is recorded, the run goes on
ExecuteStepSwallow(s, ok) ==
    /\ wf_pc = s
    /\ UNCHANGED nonWfVars
    /\ current_step' = s
    /\ IF ok
       THEN /\ completed_steps' = Append(completed_steps, s)
            /\ UNCHANGED failed_steps
       ELSE /\ failed_steps' = Append(failed_steps, s)
            /\ UNCHANGED completed_steps
    /\ wf_pc' = NextPc(config, s)

\* _execute_step(step_name, step_function): ok is whether step_function
\* returned; otherwise it raised an Exception
ExecuteStep(s, ok) ==
    /\ wf_pc = s
    /\ UNCHANGED nonWfVars
    /\ current_step' = s
    /\ IF ok
       THEN /\ completed_steps' = Append(completed_steps, s)
            /\ UNCHANGED failed_steps
            /\ wf_pc' = NextPc(config, s)
       ELSE /\ failed_steps' = Append(failed_steps, s)
            /\ UNCHANGED completed_steps
            /\ wf_pc' = "except"

\* CFXAutomationConfig.validate: paths_exist is whether every configured
\* executable, file and directory exists
Validate(pressures, paths_exist) ==
    (IF paths_exist THEN {} ELSE {"path not found"})
        \cup (IF pressures = <<>> THEN {"Pressure list cannot be empty"} ELSE {})

\* run_workflow going on whatever validate returned
AfterValidationIgnored(errors) == "start"

\* "if errors: ... return False" of run_workflow
AfterValidation(errors) == IF errors # {} THEN "exited" ELSE "start"

\* run_workflow up to the call of run_complete_workflow; main turns its False
\* into exit code 1
ValidateConfig ==
    /\ wf_pc = "run_workflow"
    /\ \E paths_exist \in BOOLEAN :
        LET errors == Validate(pressure_list, paths_exist)
        IN /\ validation_errors' = errors
           /\ wf_pc' = AfterValidation(errors)
           /\ exit_code' = IF wf_pc' = "exited" THEN 1 ELSE exit_code
    /\ UNCHANGED <<config, pressure_list, current_step, completed_steps,
                   failed_steps, ssh_open, def_files, cfx_returncode,
                   report_written, wf_result>>
    /\ UNCHANGED pipeVars
    /\ UNCHANGED nonWfVars

\* _initialize_execution_state
InitializeExecutionState ==
    /\ wf_pc = "start"
    /\ UNCHANGED nonWfVars
    /\ current_step' = ""
    /\ completed_steps' = <<>>
    /\ failed_steps' = <<>>
    /\ wf_pc' = "connect_server"
    /\ UNCHANGED <<config, validation_errors, pressure_list, ssh_open, def_files, cfx_returncode,
                   report_written, wf_result, exit_code>>
    /\ UNCHANGED pipeVars

\* _connect_to_server
ConnectServer ==
    \E connected \in BOOLEAN :
        /\ ExecuteStep("connect_server", connected)
        /\ ssh_open' = connected
        /\ UNCHANGED <<config, validation_errors, pressure_list, def_files, cfx_returncode,
                       report_written, wf_result, exit_code>>
        /\ UNCHANGED pipeVars

\* _verify_cfx_environment, server_ok: verify_server_cfx_environment passed
VerifyCfxEnvironment(c, server_ok) ==
    IF c.skip_cfx_verification
    THEN (c.cfx_mode = "local") => c.cfx_pre_executable
    ELSE server_ok /\ ((c.cfx_mode = "local") => c.cfx_pre_executable)

VerifyCfx ==
    \E server_ok \in BOOLEAN :
        /\ ExecuteStep("verify_cfx", VerifyCfxEnvironment(config, server_ok))
        /\ UNCHANGED <<config, validation_errors, pressure_list, ssh_open, def_files,
                       cfx_returncode, report_written, wf_result, exit_code>>
        /\ UNCHANGED pipeVars

\* CFXManager.generate_pre_files
GeneratePre ==
    \E ok \in BOOLEAN :
        /\ ExecuteStep("generate_pre", ok)
        /\ UNCHANGED <<config, validation_errors, pressure_list, ssh_open, def_files,
                       cfx_returncode, report_written, wf_result, exit_code>>
        /\ UNCHANGED pipeVars

\* CFXManager._execute_cfx_pre_local: None when CFX-Pre exits non-zero, else
\* the expected .def files that exist, in pressure order
ExecuteCfxPreLocal(rc, existing) ==
    IF rc # 0 THEN [none |-> TRUE, files |-> <<>>]
    ELSE [none |-> FALSE, files |-> SelectSeqIdx(pressure_list, existing, 1)]

\* CFXManager.generate_def_files_local for the single consolidated .pre file:
\* a None result is skipped, the list collected so far is returned
GenerateDefFilesLocal(rc, existing) ==
    LET r == ExecuteCfxPreLocal(rc, existing)
    IN IF r.none \/ r.files = <<>> THEN <<>> ELSE r.files

\* _generate_def_files
GenerateDef ==
    IF config.cfx_mode = "local"
    THEN IF config.cfx_pre_executable
         THEN \E rc \in {0, 1}, existing \in SUBSET (1..Len(pressure_list)) :
                /\ ExecuteStep("generate_def", TRUE)
                /\ cfx_returncode' = rc
                /\ def_files' = GenerateDefFilesLocal(rc, existing)
                /\ UNCHANGED <<config, validation_errors, pressure_list, ssh_open, report_written,
                               wf_result, exit_code>>
                /\ UNCHANGED pipeVars
         ELSE /\ ExecuteStep("generate_def", FALSE)
              /\ UNCHANGED <<config, validation_errors, pressure_list, ssh_open, def_files,
                             cfx_returncode, report_written, wf_result,
                             exit_code>>
              /\ UNCHANGED pipeVars
    ELSE \E ok \in BOOLEAN, existing \in SUBSET (1..Len(pressure_list)) :
            /\ ExecuteStep("generate_def", ok)
            /\ def_files' = IF ok THEN SelectSeqIdx(pressure_list, existing, 1)
                            ELSE def_files
            /\ UNCHANGED <<config, validation_errors, pressure_list, ssh_open, cfx_returncode,
                           report_written, wf_result, exit_code>>
            /\ UNCHANGED pipeVars

\* the steps whose outcome is decided by the environment only
OtherStep(s) ==
    \E ok \in BOOLEAN :
        /\ ExecuteStep(s, ok)
        /\ UNCHANGED <<config, validation_errors, pressure_list, ssh_open, def_files,
                       cfx_returncode, report_written, wf_result, exit_code>>
        /\ UNCHANGED pipeVars

\* config default_available_nodes, read with getattr(..., 2)
DefaultAvailableNodes == 2

\* ClusterQueryManager.query_cluster_nodes: the node list, kept as the number of
\* nodes and the number of them that are available
QueryCluster ==
    \E ok \in BOOLEAN, total \in {0, MaxNodes}, avail \in 0..MaxNodes :
        /\ avail <= total
        /\ ExecuteStep("query_cluster", ok)
        /\ cluster_status' = IF ok THEN [none |-> FALSE, total |-> total,
                                         available |-> avail]
                             ELSE cluster_status
        /\ UNCHANGED <<config, validation_errors, pressure_list, ssh_open, def_files,
                       cfx_returncode, report_written, wf_result, exit_code>>
        /\ UNCHANGED <<generated_scripts, submit_log, submit_output,
                       submitted_jobs, interrupted, monitoring_report>>

\* _get_available_node_count: "if not cluster_status" is true for None and for
\* an empty node list
GetAvailableNodeCount(cs) ==
    IF cs.none \/ cs.total = 0 THEN DefaultAvailableNodes ELSE cs.available

RECURSIVE JobScriptsReversed(_, _, _)
\* the job scripts appended from the last job to the first
JobScriptsReversed(n, rendered, i) ==
    IF i > n THEN <<>>
    ELSE (IF (n + 1 - i) \in rendered THEN <<n + 1 - i>> ELSE <<>>)
         \o JobScriptsReversed(n, rendered, i + 1)

RECURSIVE JobScripts(_, _, _)
\* the job scripts as _generate_parallel_jobs / _generate_sequential_jobs /
\* _generate_batch_jobs append them: jobs in list order, rendered holding the
\* jobs whose script _generate_single_job_script produced
JobScripts(n, rendered, i) ==
    IF i > n THEN <<>>
    ELSE (IF i \in rendered THEN <<i>> ELSE <<>>)
         \o JobScripts(n, rendered, i + 1)

\* run_workflow builds one job per pressure, _create_simple_job_configs keeps
\* them; generate_job_scripts picks the strategy and writes the scripts
GenerateScripts ==
    \E ok \in BOOLEAN, rendered \in SUBSET (1..Len(pressure_list)) :
        /\ ExecuteStep("generate_scripts", ok)
        /\ ~ok => rendered = {}
        /\ LET n == Len(pressure_list)
               K == GetAvailableNodeCount(cluster_status)
               strategy == DetermineQueueStrategy(n, K)
               js == JobScripts(n, rendered, 1)
           IN generated_scripts' =
                 IF ok
                 THEN [job_scripts |-> js,
                       submit_script |->
                           GenerateDefaultSubmitScript(js, strategy, K),
                       queue_strategy |-> strategy]
                 ELSE generated_scripts
        /\ UNCHANGED <<config, validation_errors, pressure_list, ssh_open, def_files,
                       cfx_returncode, report_written, wf_result, exit_code>>
        /\ UNCHANGED <<cluster_status, submit_log, submit_output,
                       submitted_jobs, interrupted, monitoring_report>>

UploadFiles == OtherStep("upload_files")

\* the id the scheduler gives to job j
JobId(j) == ToString(j)

\* what the submit command prints: sbatch "Submitted batch job <id>", qsub
\* the id itself
SubmitOutput(dialect, j) ==
    IF dialect = "SLURM" THEN <<"Submitted", "batch", "job", JobId(j)>>
    ELSE <<JobId(j)>>

\* an echo line of Submit_All.sh on its stdout
EchoLine == <<"echo">>

\* what a command line of Submit_All.sh writes to the script's stdout when the
\* scheduler accepts the job: the output of a background submission; the
\* output of "JOB_ID=$(...)" is captured by the command substitution
Stdout(dialect, line) ==
    IF line.op = "submit_bg" THEN <<SubmitOutput(dialect, line.job)>> ELSE <<>>

RECURSIVE ScriptJobs(_, _)
\* the submissions of Submit_All.sh, in the order of its lines
ScriptJobs(script, i) ==
    IF i > Len(script) THEN <<>>
    ELSE (IF script[i].op \in {"submit", "submit_bg"}
          THEN <<script[i]>> ELSE <<>>) \o ScriptJobs(script, i + 1)

RECURSIVE FlattenLines(_, _, _)
\* the stdout lines of the submissions in log
FlattenLines(dialect, log, i) ==
    IF i > Len(log) THEN <<>>
    ELSE Stdout(dialect, log[i]) \o FlattenLines(dialect, log, i + 1)

\* the orders in which the submissions of S can reach the scheduler
Orders(S) ==
    {f \in [1..Cardinality(S) -> S] :
        \A i, j \in 1..Cardinality(S) : i # j => f[i] # f[j]}

\* "'Submitted batch job' in line", a line being its words
ContainsSubmitted(line) ==
    \E i \in 1..(Len(line) - 2) :
        line[i] = "Submitted" /\ line[i + 1] = "batch" /\ line[i + 2] = "job"

RECURSIVE ParseSubmittedJobs(_, _)
\* the parsing loop of _submit_jobs: job_id = line.strip().split()[-1]
ParseSubmittedJobs(output, i) ==
    IF i > Len(output) THEN <<>>
    ELSE (IF ContainsSubmitted(output[i])
          THEN <<[job_id |-> output[i][Len(output[i])],
                  output_line |-> output[i]]>>
          ELSE <<>>) \o ParseSubmittedJobs(output, i + 1)

\* _submit_jobs: Submit_All.sh runs on the server; exit_ok is its exit status
\* being 0; background submissions reach the scheduler in any order
SubmitJobs ==
    \E exit_ok \in BOOLEAN :
        LET lines == ScriptJobs(generated_scripts.submit_script, 1)
        IN \E order \in Orders(Range(lines)) :
            /\ generated_scripts.queue_strategy # "parallel" => order = lines
            /\ ~exit_ok => order = lines
            /\ ExecuteStep("submit_jobs", exit_ok)
            /\ submit_log' = IF exit_ok
                             THEN [i \in 1..Len(order) |-> order[i].job]
                             ELSE submit_log
            /\ submit_output' =
                  IF exit_ok
                  THEN <<EchoLine>> \o FlattenLines(scheduler_type, order, 1)
                       \o <<EchoLine>>
                  ELSE submit_output
            /\ submitted_jobs' =
                  IF exit_ok THEN ParseSubmittedJobs(submit_output', 1)
                  ELSE submitted_jobs
            /\ UNCHANGED <<config, validation_errors, pressure_list, ssh_open, def_files,
                           cfx_returncode, report_written, wf_result,
                           exit_code>>
            /\ UNCHANGED <<cluster_status, generated_scripts, interrupted,
                           monitoring_report>>

\* what the call of _monitor_jobs does on each way out of
\* JobMonitor.monitor_jobs: "returned" is the normal end of the loop (the
\* report is generated and saved), "interrupted" is a KeyboardInterrupt
\* caught by monitor_jobs or by _monitor_jobs (the report is generated and
\* returned), "raised" is any other exception (WorkflowError)
MonitorOutcomes == {"returned", "interrupted", "raised"}

\* step monitor_jobs: _monitor_jobs under _execute_step
MonitorJobs ==
    \E outcome \in MonitorOutcomes :
        /\ ExecuteStep("monitor_jobs", outcome # "raised")
        /\ interrupted' = (outcome = "interrupted")
        /\ monitoring_report' = CASE outcome = "returned" -> "saved"
                                   [] outcome = "interrupted" -> "returned"
                                   [] OTHER -> "none"
        /\ UNCHANGED <<config, validation_errors, pressure_list, ssh_open, def_files,
                       cfx_returncode, report_written, wf_result, exit_code>>
        /\ UNCHANGED <<cluster_status, generated_scripts, submit_log,
                       submit_output, submitted_jobs>>

\* a finally block that leaves the session as it is
CleanupResourcesSkipped(open) == open

\* _cleanup_resources: "if self.ssh_client: self.ssh_client.close()"; the
\* result is whether the session is open afterwards
CleanupResources(open) == FALSE

\* _generate_final_report, _save_execution_report, the return and the finally
\* block of execute_full_workflow
GenerateFinalReport ==
    /\ wf_pc = "report"
    /\ UNCHANGED nonWfVars
    /\ \E saved \in BOOLEAN : report_written' = saved
    /\ wf_result' = "report"
    /\ ssh_open' = CleanupResources(ssh_open)
    /\ wf_pc' = "returned"
    /\ UNCHANGED <<config, validation_errors, pressure_list, current_step, completed_steps,
                   failed_steps, def_files, cfx_returncode, exit_code>>
    /\ UNCHANGED pipeVars

\* the except and finally blocks of execute_full_workflow
HandleException ==
    /\ wf_pc = "except"
    /\ UNCHANGED nonWfVars
    /\ wf_result' = "WorkflowError"
    /\ ssh_open' = CleanupResources(ssh_open)
    /\ wf_pc' = "raised"
    /\ UNCHANGED <<config, validation_errors, pressure_list, current_step, completed_steps,
                   failed_steps, def_files, cfx_returncode, report_written,
                   exit_code>>
    /\ UNCHANGED pipeVars

\* run_complete_workflow, run_workflow and main: the process exit code
RunCompleteWorkflow ==
    /\ wf_pc \in {"returned", "raised"}
    /\ UNCHANGED nonWfVars
    /\ exit_code' = IF wf_result = "WorkflowError" THEN 1
                    ELSE IF failed_steps = <<>> THEN 0 ELSE 1
    /\ wf_pc' = "exited"
    /\ UNCHANGED <<config, validation_errors, pressure_list, current_step, completed_steps,
                   failed_steps, ssh_open, def_files, cfx_returncode,
                   report_written, wf_result>>
    /\ UNCHANGED pipeVars

\* no step of the pipeline has produced a result
PipeIdle ==
    /\ cluster_status = [none |-> TRUE, total |-> 0, available |-> 0]
    /\ generated_scripts = [job_scripts |-> <<>>, submit_script |-> <<>>,
                            queue_strategy |-> ""]
    /\ submit_log = <<>>
    /\ submit_output = <<>>
    /\ submitted_jobs = <<>>
    /\ interrupted = FALSE
    /\ monitoring_report = "none"

\* no function is being called on its own
CallIdle ==
    /\ call_args = <<>>
    /\ call_result = <<>>
    /\ call_done = FALSE

\* the script generator has not been called
DriverIdle ==
    /\ job_count = 0
    /\ available_nodes = 0
    /\ queue_strategy = ""
    /\ job_scripts = <<>>
    /\ submit_script = <<>>
    /\ drv_pc = 0
    /\ JOB_ID = <<>>
    /\ JOB_IDS = <<>>
    /\ word_idx = 0
    /\ sched = <<>>

\* allocate_nodes has not been called
AllocIdle ==
    /\ alloc_config = [partition |-> "", exclude_nodes |-> {},
                       max_concurrent_jobs |-> 1]
    /\ alloc_nodes = <<>>
    /\ alloc_jobs = <<>>
    /\ alloc_strategy = ""
    /\ alloc_result = [error |-> FALSE, jobs |-> <<>>, warnings |-> {}]

\* neither upload_files nor download_files has been called
TransferIdle ==
    /\ transfer_config = [transfer_retry_times |-> 1,
                          enable_checksum_verification |-> FALSE]
    /\ direction = ""
    /\ file_list = <<>>
    /\ xfer_pc = "idle"
    /\ file_idx = 0
    /\ attempt = 0
    /\ attempted = <<>>
    /\ destination = <<>>
    /\ transferred_files = {}
    /\ transfer_stats = [transferred |-> 0, failed_transfers |-> 0]
    /\ last_transfer = [tries |-> 0, backoff |-> <<>>, outcome |-> "",
                        error |-> ""]

\* no snapshot has been recorded
HistoryIdle == monitoring_history = <<>>

\* run --steps has not been asked for
StepOnlyIdle ==
    /\ step_names = <<>>
    /\ step_idx = 0
    /\ ssh_client = "none"
    /\ remote_uses = {}
    /\ steps_result = "none"

\* start_monitoring has not been called
MonitorIdle ==
    /\ monitoring = FALSE
    /\ monitored_jobs = <<>>
    /\ mon_pc = "idle"
    /\ auto_download_results = FALSE
    /\ accounting = TRUE
    /\ cluster_jobs = <<>>

Configs ==
    [enable_node_detection : BOOLEAN, enable_monitoring : BOOLEAN,
     cfx_mode : {"local", "server"}, skip_cfx_verification : BOOLEAN,
     cfx_pre_executable : BOOLEAN]

InitWorkflow ==
    /\ config \in Configs
    /\ validation_errors = {}
    /\ \E n \in 0..MaxJobs : pressure_list = [i \in 1..n |-> i]
    /\ wf_pc = "run_workflow"
    /\ current_step = ""
    /\ completed_steps = <<>>
    /\ failed_steps = <<>>
    /\ ssh_open = FALSE
    /\ def_files = <<>>
    /\ cfx_returncode = -1
    /\ report_written = FALSE
    /\ wf_result = "none"
    /\ exit_code = -1
    /\ PipeIdle
    /\ scheduler_type = "SLURM"
    /\ DriverIdle
    /\ AllocIdle
    /\ MonitorIdle
    /\ CallIdle
    /\ TransferIdle
    /\ HistoryIdle
    /\ StepOnlyIdle

NextWorkflow ==
    \/ ValidateConfig
    \/ InitializeExecutionState
    \/ ConnectServer
    \/ VerifyCfx
    \/ GeneratePre
    \/ GenerateDef
    \/ QueryCluster
    \/ GenerateScripts
    \/ UploadFiles
    \/ SubmitJobs
    \/ MonitorJobs
    \/ GenerateFinalReport
    \/ HandleException
    \/ RunCompleteWorkflow

SpecWorkflow == InitWorkflow /\ [][NextWorkflow]_vars

\* a full run over at most one pressure: the step bookkeeping and the session
\* of execute_full_workflow under every configuration and every outcome of
\* every step
InitSingleJobRun ==
    /\ InitWorkflow
    /\ Len(pressure_list) <= 1

SpecSingleJobRun == InitSingleJobRun /\ [][NextWorkflow]_vars

\* ------------------------------------------------------------------------
\* Properties of the orchestrator
\* ------------------------------------------------------------------------
\* the steps execute_full_workflow runs under configuration c, in order
EnabledSteps(c) == SelectSeq(StepOrder, LAMBDA s : StepEnabled(c, s))

\* C1: steps are started in the fixed order, a disabled step is never
\* started, a step is started only after every earlier enabled step is in
\* completed_steps, and completed_steps is always a prefix of the sequence of
\* enabled steps.
C1_StepsInOrder ==
    /\ IsPrefix(completed_steps, EnabledSteps(config))
    /\ current_step # "" =>
          /\ StepEnabled(config, current_step)
          /\ \A i \in 1..(StepIndex(current_step) - 1) :
                StepEnabled(config, StepOrder[i])
                    => StepOrder[i] \in Range(completed_steps)

C1_Witness ==
    /\ wf_pc = "returned"
    /\ ~config.enable_node_detection
    /\ config.enable_monitoring
    /\ completed_steps = EnabledSteps(config)
    /\ Len(completed_steps) = 8

\* execute_full_workflow has returned or raised
Ended == wf_pc \in {"returned", "raised", "exited"}

\* C37: after execute_full_workflow returns or raises, whether all steps
\* succeeded or a step failed at any point, the SSH session opened by
\* connect_server has been closed, and it is closed only after the last step
\* that ran has ended: the session is closed in the transition that ends
\* the run, in no other, and no step is started afterwards.
C37_SessionClosedAtEnd ==
    [][/\ Ended' => ~ssh_open'
       /\ (ssh_open /\ ~ssh_open') => (~Ended /\ Ended')
       /\ Ended => UNCHANGED <<current_step, completed_steps, failed_steps>>
      ]_vars

C37_Witness ==
    /\ wf_pc = "raised"
    /\ completed_steps = <<"connect_server", "verify_cfx", "generate_pre">>
    /\ failed_steps = <<"generate_def">>
    /\ ~ssh_open

\* C2: once a step has raised, its name is in failed_steps, it stays the
\* current step (no later step is started), and the caller receives a
\* WorkflowError.
C2_FailFast ==
    failed_steps # <<>> =>
        /\ failed_steps = <<current_step>>
        /\ current_step \notin Range(completed_steps)
        /\ wf_pc \in {"except", "raised", "exited"}
        /\ wf_pc \in {"raised", "exited"} => wf_result = "WorkflowError"

C2_Witness ==
    /\ wf_pc = "raised"
    /\ failed_steps = <<"upload_files">>
    /\ wf_result = "WorkflowError"

\* no element occurs twice in the sequence
NoRepeats(seq) ==
    \A i, j \in 1..Len(seq) : seq[i] = seq[j] => i = j

\* C40: at every point of a full run completed_steps and failed_steps are
\* disjoint, no step name occurs twice in either list, failed_steps holds at
\* most one step, and current_step is the most recently started step (the
\* failed one if a step failed, else the last completed one, "" before the
\* first step).
C40_StepListsConsistent ==
    /\ Range(completed_steps) \cap Range(failed_steps) = {}
    /\ NoRepeats(completed_steps)
    /\ NoRepeats(failed_steps)
    /\ Len(failed_steps) <= 1
    /\ current_step =
          IF failed_steps # <<>> THEN failed_steps[Len(failed_steps)]
          ELSE IF completed_steps # <<>>
               THEN completed_steps[Len(completed_steps)]
               ELSE ""

C40_Witness ==
    /\ wf_pc = "raised"
    /\ Len(completed_steps) >= 6
    /\ failed_steps = <<"submit_jobs">>
    /\ current_step = "submit_jobs"

\* C3: when a step failed during a full run, an execution report has been
\* written by the time the process ends, and the exit code is non-zero.
C3_ReportOnFailure ==
    (wf_pc = "exited" /\ failed_steps # <<>>) =>
        (report_written /\ exit_code # 0)

\* C4: when the local CFX-Pre run exits non-zero, generate_def ends in
\* failed_steps and not in completed_steps, and no later step runs.
C4_DefFailureFailsStep ==
    (config.cfx_mode = "local" /\ cfx_returncode > 0) =>
        /\ "generate_def" \in Range(failed_steps)
        /\ "generate_def" \notin Range(completed_steps)
        /\ current_step = "generate_def"

\* the position of pressure p in the pressure list
PositionOf(p) == CHOOSE i \in 1..Len(pressure_list) : pressure_list[i] = p

\* the elements of a sequence of positions are in strictly increasing order
Increasing(positions) ==
    \A i, j \in 1..Len(positions) : i < j => positions[i] < positions[j]

\* C11: the .def list, the job-script list and, under the sequential and batch
\* strategies, the submissions of the driver are all in the order of the
\* pressure list (job i being the job of the i-th pressure).
C11_PressureOrderPreserved ==
    /\ Increasing([i \in 1..Len(def_files) |-> PositionOf(def_files[i])])
    /\ Increasing(generated_scripts.job_scripts)
    /\ generated_scripts.queue_strategy \in {"sequential", "batch"} =>
          /\ Increasing(submit_log)
          /\ "submit_jobs" \in Range(completed_steps) =>
                submit_log = generated_scripts.job_scripts

C11_Witness ==
    /\ "submit_jobs" \in Range(completed_steps)
    /\ generated_scripts.queue_strategy = "batch"
    /\ Len(def_files) = 3
    /\ submit_log = <<1, 2, 3>>

\* _create_simple_job_configs: job i of the job list (the job of the i-th
\* pressure) gets def_files[i] when the .def list is that long, else "". A
\* .def path is kept as <<p>>, p the pressure it was generated for, and the
\* empty string as <<>>.
CreateSimpleJobConfigs(pressures, defs) ==
    [i \in 1..Len(pressures) |->
        [pressure |-> pressures[i],
         def_file |-> IF i <= Len(defs) THEN <<defs[i]>> ELSE <<>>]]

\* C35: in the job list built after generate_def, the def_file of the job for
\* pressure p is the .def generated for p, or empty when none was generated;
\* a missing .def never makes another pressure's .def the job's file.
C35_DefFileOfOwnPressure ==
    "generate_def" \in Range(completed_steps) =>
        LET simple_jobs == CreateSimpleJobConfigs(pressure_list, def_files)
        IN \A i \in DOMAIN simple_jobs :
               simple_jobs[i].def_file \in {<<simple_jobs[i].pressure>>, <<>>}

\* C13: submit_jobs completes only when a job id was parsed for every job
\* the driver submitted, and for at least one; otherwise the step fails and
\* monitor_jobs is not started.
C13_SubmitFailsWithoutIds ==
    "submit_jobs" \in Range(completed_steps) =>
        /\ submitted_jobs # <<>>
        /\ Len(submitted_jobs) = Len(submit_log)

\* C32: for both dialects and every queue strategy, submit_jobs returns one
\* job record per job script the driver submitted, each with the id the
\* scheduler printed for that submission (for PBS the line qsub printed).
C32_OneRecordPerSubmission ==
    "submit_jobs" \in Range(completed_steps) =>
        /\ DOMAIN submitted_jobs = DOMAIN submit_log
        /\ \A k \in DOMAIN submit_log :
               k \in DOMAIN submitted_jobs
                   => submitted_jobs[k].job_id = JobId(submit_log[k])

\* C15: once validation has returned errors, the run is rejected before any
\* step: no step is started, the SSH session is never opened, no .def file or
\* script is generated, nothing is submitted, and the process exits with 1.
C15_InvalidConfigRejected ==
    validation_errors # {} =>
        /\ current_step = "" /\ completed_steps = <<>> /\ failed_steps = <<>>
        /\ ~ssh_open
        /\ def_files = <<>>
        /\ generated_scripts.job_scripts = <<>>
        /\ submit_log = <<>>
        /\ wf_pc = "exited" /\ exit_code = 1

C15_Witness ==
    /\ wf_pc = "exited"
    /\ pressure_list = <<>>
    /\ "Pressure list cannot be empty" \in validation_errors
    /\ exit_code = 1

\* C16: when node detection is enabled and the cluster query found no
\* available node, the run fails instead of generating scripts and submitting
\* jobs.
C16_NoNodesFailsRun ==
    (config.enable_node_detection /\ ~cluster_status.none
        /\ cluster_status.available = 0) =>
        /\ "generate_scripts" \notin Range(completed_steps)
        /\ "submit_jobs" \notin Range(completed_steps)
        /\ submit_log = <<>>
        /\ wf_pc \in {"returned", "exited"} => wf_result = "WorkflowError"

\* C18: when the user interrupts during monitor_jobs, a monitoring report
\* with the last known states is produced, the SSH session is cleaned up and
\* the process exits with a non-zero code.
C18_InterruptExitsNonZero ==
    (wf_pc = "exited" /\ interrupted) =>
        /\ monitoring_report # "none"
        /\ ~ssh_open
        /\ exit_code # 0

\* ------------------------------------------------------------------------
\* ScriptGenerator.generate_job_scripts as called on its own
\* ------------------------------------------------------------------------
\* generate_job_scripts: generated is the set of jobs whose script rendered
\* (_generate_single_job_script returns None for the others)
GenerateJobScripts ==
    /\ drv_pc = 0
    /\ queue_strategy = ""
    /\ \E generated \in SUBSET (1..job_count) :
        LET strategy == DetermineQueueStrategy(job_count, available_nodes)
            scripts == SelectSeqIdx([i \in 1..job_count |-> i], generated, 1)
        IN /\ queue_strategy' = strategy
           /\ job_scripts' = scripts
           /\ submit_script' =
                 GenerateDefaultSubmitScript(scripts, strategy, available_nodes)
    /\ drv_pc' = 1
    /\ UNCHANGED <<scheduler_type, job_count, available_nodes, JOB_ID, JOB_IDS,
                   word_idx, sched>>
    /\ UNCHANGED nonDrvVars

\* ------------------------------------------------------------------------
\* Submit_All.sh running on the cluster
\* ------------------------------------------------------------------------
\* squeue / qstat still list the job
Listed(j) == sched[j] \in {"queued", "running", "done"}

\* exit status 0 of "squeue -j <words>" / "qstat <words>": the argument is one
\* job id and the scheduler lists that job
QuerySucceeds(words) ==
    /\ Len(words) = 1
    /\ \E j \in 1..job_count : words[1] = JobId(j) /\ Listed(j)

AtLine(op) ==
    /\ drv_pc \in 1..Len(submit_script)
    /\ submit_script[drv_pc].op = op

\* "{submit_cmd} {path} &"
DriverSubmitBackground ==
    /\ AtLine("submit_bg")
    /\ sched' = [sched EXCEPT ![submit_script[drv_pc].job] = "queued"]
    /\ drv_pc' = drv_pc + 1
    /\ UNCHANGED <<scheduler_type, job_count, available_nodes, queue_strategy,
                   job_scripts, submit_script, JOB_ID, JOB_IDS, word_idx>>
    /\ UNCHANGED nonDrvVars

\* "wait"
DriverWait ==
    /\ AtLine("wait")
    /\ drv_pc' = drv_pc + 1
    /\ UNCHANGED <<scheduler_type, job_count, available_nodes, queue_strategy,
                   job_scripts, submit_script, JOB_ID, JOB_IDS, word_idx, sched>>
    /\ UNCHANGED nonDrvVars

\* "JOB_ID=$({submit_cmd} {path})"
DriverSubmit ==
    /\ AtLine("submit")
    /\ sched' = [sched EXCEPT ![submit_script[drv_pc].job] = "queued"]
    /\ JOB_ID' = SubmitOutput(scheduler_type, submit_script[drv_pc].job)
    /\ drv_pc' = drv_pc + 1
    /\ UNCHANGED <<scheduler_type, job_count, available_nodes, queue_strategy,
                   job_scripts, submit_script, JOB_IDS, word_idx>>
    /\ UNCHANGED nonDrvVars

\* "while {query_cmd} $JOB_ID &>/dev/null; do sleep 30; done": the loop is
\* left when the query command fails
DriverWaitJob ==
    /\ AtLine("wait_job")
    /\ ~QuerySucceeds(JOB_ID)
    /\ drv_pc' = drv_pc + 1
    /\ UNCHANGED <<scheduler_type, job_count, available_nodes, queue_strategy,
                   job_scripts, submit_script, JOB_ID, JOB_IDS, word_idx, sched>>
    /\ UNCHANGED nonDrvVars

\* "JOB_IDS=\"$JOB_IDS $JOB_ID\""
DriverAppendIds ==
    /\ AtLine("append_ids")
    /\ JOB_IDS' = JOB_IDS \o JOB_ID
    /\ drv_pc' = drv_pc + 1
    /\ UNCHANGED <<scheduler_type, job_count, available_nodes, queue_strategy,
                   job_scripts, submit_script, JOB_ID, word_idx, sched>>
    /\ UNCHANGED nonDrvVars

\* "for job_id in $JOB_IDS; do while {query_cmd} $job_id ...; done": one
\* word of $JOB_IDS at a time
DriverWaitIds ==
    /\ AtLine("wait_ids")
    /\ IF word_idx < Len(JOB_IDS)
       THEN /\ ~QuerySucceeds(<<JOB_IDS[word_idx + 1]>>)
            /\ word_idx' = word_idx + 1
            /\ UNCHANGED drv_pc
       ELSE /\ word_idx' = 0
            /\ drv_pc' = drv_pc + 1
    /\ UNCHANGED <<scheduler_type, job_count, available_nodes, queue_strategy,
                   job_scripts, submit_script, JOB_ID, JOB_IDS, sched>>
    /\ UNCHANGED nonDrvVars

\* "JOB_IDS=\"\""
DriverClearIds ==
    /\ AtLine("clear_ids")
    /\ JOB_IDS' = <<>>
    /\ drv_pc' = drv_pc + 1
    /\ UNCHANGED <<scheduler_type, job_count, available_nodes, queue_strategy,
                   job_scripts, submit_script, JOB_ID, word_idx, sched>>
    /\ UNCHANGED nonDrvVars

\* the cluster: a queued job starts, a running job ends, a finished job drops
\* out of the scheduler's listing
SchedulerStep(j, from, to) ==
    /\ sched[j] = from
    /\ sched' = [sched EXCEPT ![j] = to]
    /\ UNCHANGED <<scheduler_type, job_count, available_nodes, queue_strategy,
                   job_scripts, submit_script, drv_pc, JOB_ID, JOB_IDS,
                   word_idx>>
    /\ UNCHANGED nonDrvVars

SchedulerStart == \E j \in 1..job_count : SchedulerStep(j, "queued", "running")
SchedulerFinish == \E j \in 1..job_count : SchedulerStep(j, "running", "done")
SchedulerPurge == \E j \in 1..job_count : SchedulerStep(j, "done", "gone")

\* execute_full_workflow has not been called
OrchestratorIdle ==
    /\ config = [enable_node_detection |-> TRUE, enable_monitoring |-> TRUE,
                 cfx_mode |-> "local", skip_cfx_verification |-> FALSE,
                 cfx_pre_executable |-> TRUE]
    /\ validation_errors = {}
    /\ pressure_list = <<>>
    /\ wf_pc = "start"
    /\ current_step = ""
    /\ completed_steps = <<>>
    /\ failed_steps = <<>>
    /\ ssh_open = FALSE
    /\ def_files = <<>>
    /\ cfx_returncode = -1
    /\ report_written = FALSE
    /\ wf_result = "none"
    /\ exit_code = -1

WorkflowIdle ==
    /\ OrchestratorIdle
    /\ PipeIdle

InitDriver ==
    /\ WorkflowIdle
    /\ AllocIdle
    /\ MonitorIdle
    /\ CallIdle
    /\ TransferIdle
    /\ HistoryIdle
    /\ StepOnlyIdle
    /\ scheduler_type \in {"SLURM", "PBS"}
    /\ job_count \in 0..MaxJobs
    /\ available_nodes \in 0..MaxNodes
    /\ queue_strategy = ""
    /\ job_scripts = <<>>
    /\ submit_script = <<>>
    /\ drv_pc = 0
    /\ JOB_ID = <<>>
    /\ JOB_IDS = <<>>
    /\ word_idx = 0
    /\ sched = [j \in 1..job_count |-> "none"]

NextDriver ==
    \/ GenerateJobScripts
    \/ DriverSubmitBackground
    \/ DriverWait
    \/ DriverSubmit
    \/ DriverWaitJob
    \/ DriverAppendIds
    \/ DriverWaitIds
    \/ DriverClearIds
    \/ SchedulerStart
    \/ SchedulerFinish
    \/ SchedulerPurge

SpecDriver == InitDriver /\ [][NextDriver]_vars

\* ------------------------------------------------------------------------
\* Properties of the queue strategy and the driver
\* ------------------------------------------------------------------------
Active == {j \in 1..job_count : sched[j] \in {"queued", "running"}}
Submitted(j) == sched[j] # "none"
Terminal(j) == sched[j] \in {"done", "gone"}

\* C5: parallel when K >= J; batch when 1 <= K < J and J <= 2K; sequential in
\* every other case.
C5_QueueStrategy ==
    queue_strategy # "" =>
        LET J == job_count
            K == available_nodes
        IN /\ (K >= J) <=> queue_strategy = "parallel"
           /\ (1 <= K /\ K < J /\ J <= 2 * K) <=> queue_strategy = "batch"
           /\ (~(K >= J) /\ ~(1 <= K /\ K < J /\ J <= 2 * K))
                  <=> queue_strategy = "sequential"

C5_Witness ==
    /\ queue_strategy = "batch"
    /\ job_count = 2 * available_nodes
    /\ available_nodes >= 1

\* C6: under the sequential strategy jobs are submitted in job-list order,
\* job i+1 only after job i is terminal on the scheduler, so at most one job
\* is queued or running at any time.
C6_SequentialOneAtATime ==
    queue_strategy = "sequential" =>
        /\ Cardinality(Active) <= 1
        /\ \A p \in 2..Len(job_scripts) :
              Submitted(job_scripts[p]) => Terminal(job_scripts[p - 1])

\* C7: under the batch strategy with K nodes the scripts are submitted in
\* job-list order in consecutive groups of K, a job of a group only after
\* every job of the previous group is terminal on the scheduler, so at most K
\* jobs are queued or running at any time.
C7_BatchGroups ==
    queue_strategy = "batch" =>
        LET K == available_nodes
            Group(p) == (p - 1) \div K
        IN /\ Cardinality(Active) <= K
           /\ \A p, q \in 1..Len(job_scripts) :
                Submitted(job_scripts[p]) =>
                    /\ q < p => Submitted(job_scripts[q])
                    /\ Group(q) < Group(p) => Terminal(job_scripts[q])

C7_Witness ==
    /\ queue_strategy = "batch"
    /\ available_nodes = 2
    /\ Len(job_scripts) = 3
    /\ sched[job_scripts[3]] = "queued"
    /\ Terminal(job_scripts[1]) /\ Terminal(job_scripts[2])

\* ------------------------------------------------------------------------
\* NodeAllocationManager
\* ------------------------------------------------------------------------
Min(a, b) == IF a <= b THEN a ELSE b
Max(a, b) == IF a >= b THEN a ELSE b

RECURSIVE InsertByCpusDesc(_, _, _)
\* x goes after every element of s[i..] whose cpus are >= x.cpus
InsertByCpusDesc(s, x, i) ==
    IF i > Len(s) THEN Append(s, x)
    ELSE IF s[i].cpus < x.cpus
         THEN SubSeq(s, 1, i - 1) \o <<x>> \o SubSeq(s, i, Len(s))
         ELSE InsertByCpusDesc(s, x, i + 1)

RECURSIVE SortByCpusDesc(_, _, _)
\* sort(key=cpus, reverse=True): stable, descending
SortByCpusDesc(s, i, acc) ==
    IF i > Len(s) THEN acc
    ELSE SortByCpusDesc(s, i + 1, InsertByCpusDesc(acc, s[i], 1))

\* _filter_available_nodes
FilterAvailableNodes(nodes, cfg) ==
    LET keep(n) == /\ n.available
                   /\ n.cpus >= 1
                   /\ (cfg.partition # "" => n.partition = cfg.partition)
                   /\ n.name \notin cfg.exclude_nodes
    IN SortByCpusDesc(SelectSeq(nodes, keep), 1, <<>>)

AllocatedJob(job, node, cpus, memory) ==
    [job |-> job.id, allocated_node |-> node.name, allocated_cpus |-> cpus,
     allocated_memory |-> memory]

RECURSIVE BatchAllocationLoop(_, _, _, _, _)
\* the loop of _batch_allocation; node_index counts from 0
BatchAllocationLoop(nodes, jobs, i, node_index, allocated) ==
    IF i > Len(jobs) THEN allocated
    ELSE LET idx == IF node_index >= Len(nodes) THEN 0 ELSE node_index
             node == nodes[idx + 1]
             required_cpus == jobs[i].cpus
         IN IF node.cpus >= required_cpus
            THEN BatchAllocationLoop(nodes, jobs, i + 1, idx + 1,
                     Append(allocated,
                            AllocatedJob(jobs[i], node,
                                         Min(required_cpus, node.cpus),
                                         node.memory)))
            ELSE BatchAllocationLoop(nodes, jobs, i + 1, idx, allocated)

\* _batch_allocation
BatchAllocation(nodes, jobs, cfg) ==
    BatchAllocationLoop(nodes, jobs, 1, 0, <<>>)

\* the per-node bookkeeping of _node_reuse and _smart_queue
NodeResources(nodes) ==
    [k \in 1..Len(nodes) |->
        [remaining_cpus |-> nodes[k].cpus, remaining_memory |-> nodes[k].memory,
         allocated_jobs |-> 0]]

Fits(res, job) ==
    res.remaining_cpus >= job.cpus /\ res.remaining_memory >= job.memory

Take(res, job) ==
    [remaining_cpus |-> res.remaining_cpus - job.cpus,
     remaining_memory |-> res.remaining_memory - job.memory,
     allocated_jobs |-> res.allocated_jobs + 1]

RECURSIVE NodeReuseLoop(_, _, _, _, _)
\* the loop of _node_reuse: the first node that still fits
NodeReuseLoop(nodes, jobs, i, resources, allocated) ==
    IF i > Len(jobs) THEN allocated
    ELSE LET fitting == {k \in 1..Len(nodes) : Fits(resources[k], jobs[i])}
         IN IF fitting = {}
            THEN NodeReuseLoop(nodes, jobs, i + 1, resources, allocated)
            ELSE LET k == CHOOSE a \in fitting : \A b \in fitting : a <= b
                 IN NodeReuseLoop(nodes, jobs, i + 1,
                        [resources EXCEPT ![k] = Take(resources[k], jobs[i])],
                        Append(allocated,
                               AllocatedJob(jobs[i], nodes[k], jobs[i].cpus,
                                            jobs[i].memory)))

\* _node_reuse
NodeReuse(nodes, jobs, cfg) ==
    NodeReuseLoop(nodes, jobs, 1, NodeResources(nodes), <<>>)

\* (cpu_ratio + memory_ratio) * load_factor as the fraction num / den, den > 0
MatchScore(node, res, job, cfg) ==
    LET node_cpus == node.cpus
        node_memory == Max(node.memory, 1)
        max_jobs == Max(cfg.max_concurrent_jobs, 1)
    IN [num |-> (job.cpus * node_memory + job.memory * node_cpus)
                    * (max_jobs - res.allocated_jobs),
        den |-> node_cpus * node_memory * max_jobs]

ScoreGreater(a, b) == a.num * b.den > b.num * a.den

RECURSIVE BestNode(_, _, _, _, _, _, _)
\* the inner loop of _smart_queue: the first node with the highest score,
\* 0 when no node fits or no score exceeds -1
BestNode(nodes, resources, job, cfg, k, best_node, best_score) ==
    IF k > Len(nodes) THEN best_node
    ELSE IF /\ Fits(resources[k], job)
            /\ ScoreGreater(MatchScore(nodes[k], resources[k], job, cfg),
                            best_score)
         THEN BestNode(nodes, resources, job, cfg, k + 1, k,
                       MatchScore(nodes[k], resources[k], job, cfg))
         ELSE BestNode(nodes, resources, job, cfg, k + 1, best_node, best_score)

RECURSIVE SmartQueueLoop(_, _, _, _, _, _)
\* the outer loop of _smart_queue over the sorted jobs
SmartQueueLoop(nodes, jobs, cfg, i, resources, allocated) ==
    IF i > Len(jobs) THEN allocated
    ELSE LET k == BestNode(nodes, resources, jobs[i], cfg, 1, 0,
                           [num |-> -1, den |-> 1])
         IN IF k = 0
            THEN SmartQueueLoop(nodes, jobs, cfg, i + 1, resources, allocated)
            ELSE SmartQueueLoop(nodes, jobs, cfg, i + 1,
                     [resources EXCEPT ![k] = Take(resources[k], jobs[i])],
                     Append(allocated,
                            AllocatedJob(jobs[i], nodes[k], jobs[i].cpus,
                                         jobs[i].memory)))

\* _smart_queue
SmartQueue(nodes, jobs, cfg) ==
    SmartQueueLoop(nodes, SortByCpusDesc(jobs, 1, <<>>), cfg, 1,
                   NodeResources(nodes), <<>>)

\* _hybrid_allocation with the two density thresholds exchanged
HybridAllocationSwapped(nodes, jobs, cfg) ==
    LET n_jobs == Len(jobs)
        n_nodes == Max(Len(nodes), 1)
    IN IF n_jobs <= n_nodes THEN BatchAllocation(nodes, jobs, cfg)
       ELSE IF n_jobs <= 3 * n_nodes THEN NodeReuse(nodes, jobs, cfg)
       ELSE SmartQueue(nodes, jobs, cfg)

\* _hybrid_allocation: job_density = job_count / max(node_count, 1)
HybridAllocation(nodes, jobs, cfg) ==
    LET n_jobs == Len(jobs)
        n_nodes == Max(Len(nodes), 1)
    IN IF n_jobs <= n_nodes THEN BatchAllocation(nodes, jobs, cfg)
       ELSE IF n_jobs <= 3 * n_nodes THEN SmartQueue(nodes, jobs, cfg)
       ELSE NodeReuse(nodes, jobs, cfg)

Strategies == {"batch_allocation", "node_reuse", "smart_queue", "hybrid"}

RECURSIVE SumField(_, _, _)
\* sum(x.get(field, 0) for x in seq[i..])
SumField(seq, field, i) ==
    IF i > Len(seq) THEN 0 ELSE seq[i][field] + SumField(seq, field, i + 1)

\* node_loads of _generate_warnings: the number of jobs on each used node
NodeLoads(allocated_jobs) ==
    {Cardinality({i \in 1..Len(allocated_jobs) :
                     allocated_jobs[i].allocated_node = name}) :
        name \in {allocated_jobs[i].allocated_node :
                     i \in 1..Len(allocated_jobs)}}

\* _generate_warnings with _calculate_node_utilization: the kinds of warning
\* in the list; utilization is allocated cores over the cores of the nodes
GenerateWarnings(allocated_jobs, nodes) ==
    LET total_cpus == SumField(nodes, "cpus", 1)
        allocated_cpus == SumField(allocated_jobs, "allocated_cpus", 1)
        loads == NodeLoads(allocated_jobs)
        unallocated == Cardinality({i \in 1..Len(allocated_jobs) :
                                       allocated_jobs[i].allocated_node = ""})
    IN (IF total_cpus = 0 \/ 10 * allocated_cpus < 3 * total_cpus
        THEN {"low utilization"}
        ELSE IF 10 * allocated_cpus > 9 * total_cpus
             THEN {"high utilization"} ELSE {})
       \cup (IF loads # {} /\ \E a, b \in loads : a > b * 2
             THEN {"load imbalance"} ELSE {})
       \cup (IF unallocated > 0 THEN {"unplaced jobs"} ELSE {})

\* allocate_nodes(strategy, nodes, jobs), the caller asking for one of the
\* strategies named
AllocateWith(strategies) ==
    /\ alloc_strategy = ""
    /\ \E strategy \in strategies :
        LET available == FilterAvailableNodes(alloc_nodes, alloc_config)
        IN /\ alloc_strategy' = strategy
           /\ alloc_result' =
                IF strategy \notin Strategies \/ available = <<>>
                THEN [error |-> TRUE, jobs |-> <<>>, warnings |-> {}]
                ELSE LET allocated ==
                           CASE strategy = "batch_allocation" ->
                                  BatchAllocation(available, alloc_jobs, alloc_config)
                             [] strategy = "node_reuse" ->
                                  NodeReuse(available, alloc_jobs, alloc_config)
                             [] strategy = "smart_queue" ->
                                  SmartQueue(available, alloc_jobs, alloc_config)
                             [] OTHER ->
                                  HybridAllocation(available, alloc_jobs, alloc_config)
                     IN [error |-> FALSE, jobs |-> allocated,
                         warnings |-> GenerateWarnings(allocated, available)]
    /\ UNCHANGED <<alloc_config, alloc_nodes, alloc_jobs>>
    /\ UNCHANGED nonAllocVars

\* allocate_nodes(strategy, nodes, jobs) with any strategy name
AllocateNodes == AllocateWith(Strategies \cup {"unsupported"})

\* allocate_nodes("hybrid", nodes, jobs)
AllocateHybrid == AllocateWith({"hybrid"})

\* a caller drops the result and asks again
AllocateAgain ==
    /\ alloc_strategy # ""
    /\ alloc_strategy' = ""
    /\ alloc_result' = [error |-> FALSE, jobs |-> <<>>, warnings |-> {}]
    /\ UNCHANGED <<alloc_config, alloc_nodes, alloc_jobs>>
    /\ UNCHANGED nonAllocVars

NodeKinds == [cpus : {MaxCores \div 2, MaxCores}, memory : {8},
              available : BOOLEAN]
JobKinds == [cpus : {MaxCores \div 2, MaxCores}, memory : {0, 8}]

InitAlloc ==
    /\ WorkflowIdle
    /\ scheduler_type = "SLURM"
    /\ DriverIdle
    /\ MonitorIdle
    /\ CallIdle
    /\ TransferIdle
    /\ HistoryIdle
    /\ StepOnlyIdle
    /\ alloc_config \in [partition : {"", "p1"}, exclude_nodes : {{}, {"n2"}},
                         max_concurrent_jobs : {1, 2}]
    /\ \E n \in 1..MaxAllocNodes : \E kinds \in [1..n -> NodeKinds] :
          alloc_nodes = [k \in 1..n |->
              [name |-> "n" \o ToString(k), cpus |-> kinds[k].cpus,
               memory |-> kinds[k].memory, available |-> kinds[k].available,
               partition |-> IF k = 1 THEN "p1" ELSE "p2"]]
    /\ \E n \in 0..MaxAllocJobs : \E kinds \in [1..n -> JobKinds] :
          alloc_jobs = [i \in 1..n |->
              [id |-> i, cpus |-> kinds[i].cpus, memory |-> kinds[i].memory]]
    /\ alloc_strategy = ""
    /\ alloc_result = [error |-> FALSE, jobs |-> <<>>, warnings |-> {}]

NextAlloc ==
    \/ AllocateNodes
    \/ AllocateAgain

SpecAlloc == InitAlloc /\ [][NextAlloc]_vars

RECURSIVE SumCpusOn(_, _, _)
\* the cores allocated on the node called name by the jobs placed[i..]
SumCpusOn(placed, name, i) ==
    IF i > Len(placed) THEN 0
    ELSE (IF placed[i].allocated_node = name THEN placed[i].allocated_cpus
          ELSE 0) + SumCpusOn(placed, name, i + 1)

\* C8: in every placement returned by allocate_nodes, under any strategy, the
\* cores allocated on a node sum to at most that node's core count.
C8_NoOversubscription ==
    (alloc_strategy # "" /\ ~alloc_result.error) =>
        \A k \in 1..Len(alloc_nodes) :
            SumCpusOn(alloc_result.jobs, alloc_nodes[k].name, 1)
                <= alloc_nodes[k].cpus

\* C29: batch_allocation over N available nodes places the i-th job (from 0)
\* on node i mod N when that node has the cores the job requires, skips it
\* otherwise, and never places it on another node.
C29_BatchRoundRobin ==
    (alloc_strategy = "batch_allocation" /\ ~alloc_result.error) =>
        LET available == FilterAvailableNodes(alloc_nodes, alloc_config)
            placed == alloc_result.jobs
        IN \A i \in 1..Len(alloc_jobs) :
              LET node == available[((i - 1) % Len(available)) + 1]
                  places == {k \in 1..Len(placed) :
                                placed[k].job = alloc_jobs[i].id}
              IN IF node.cpus >= alloc_jobs[i].cpus
                 THEN /\ places # {}
                      /\ \A k \in places : placed[k].allocated_node = node.name
                 ELSE places = {}

\* ------------------------------------------------------------------------
\* allocate_nodes with the hybrid strategy
\* ------------------------------------------------------------------------
\* most jobs and nodes handed to the hybrid strategy
MaxHybridJobs == 4
MaxHybridNodes == 2

InitHybrid ==
    /\ WorkflowIdle
    /\ scheduler_type = "SLURM"
    /\ DriverIdle
    /\ MonitorIdle
    /\ CallIdle
    /\ TransferIdle
    /\ HistoryIdle
    /\ StepOnlyIdle
    /\ alloc_config \in [partition : {""}, exclude_nodes : {{}, {"n2"}},
                         max_concurrent_jobs : {1, 2}]
    /\ \E n \in 1..MaxHybridNodes : \E kinds \in [1..n -> NodeKinds] :
          alloc_nodes = [k \in 1..n |->
              [name |-> "n" \o ToString(k), cpus |-> kinds[k].cpus,
               memory |-> kinds[k].memory, available |-> kinds[k].available,
               partition |-> "p1"]]
    /\ \E n \in 0..MaxHybridJobs : \E kinds \in [1..n -> JobKinds] :
          alloc_jobs = [i \in 1..n |->
              [id |-> i, cpus |-> kinds[i].cpus, memory |-> kinds[i].memory]]
    /\ alloc_strategy = ""
    /\ alloc_result = [error |-> FALSE, jobs |-> <<>>, warnings |-> {}]

NextHybrid == AllocateHybrid

SpecHybrid == InitHybrid /\ [][NextHybrid]_vars

\* ------------------------------------------------------------------------
\* allocate_nodes("smart_queue", nodes, jobs) over nodes that hold several
\* jobs
\* ------------------------------------------------------------------------
MaxSqNodes == 2
MaxSqJobs == 3

AllocateSmartQueue == AllocateWith({"smart_queue"})

SqNodeKinds == [cpus : {MaxCores \div 2, MaxCores}, memory : {2}]
SqJobKinds == [cpus : {1, 2}, memory : {0, 2}]

InitSmartQueue ==
    /\ WorkflowIdle
    /\ scheduler_type = "SLURM"
    /\ DriverIdle
    /\ MonitorIdle
    /\ CallIdle
    /\ TransferIdle
    /\ HistoryIdle
    /\ StepOnlyIdle
    /\ alloc_config \in [partition : {""}, exclude_nodes : {{}},
                         max_concurrent_jobs : {1, 2}]
    /\ \E n \in 1..MaxSqNodes : \E kinds \in [1..n -> SqNodeKinds] :
          alloc_nodes = [k \in 1..n |->
              [name |-> "n" \o ToString(k), cpus |-> kinds[k].cpus,
               memory |-> kinds[k].memory, available |-> TRUE,
               partition |-> "p1"]]
    /\ \E n \in 0..MaxSqJobs : \E kinds \in [1..n -> SqJobKinds] :
          alloc_jobs = [i \in 1..n |->
              [id |-> i, cpus |-> kinds[i].cpus, memory |-> kinds[i].memory]]
    /\ alloc_strategy = ""
    /\ alloc_result = [error |-> FALSE, jobs |-> <<>>, warnings |-> {}]

NextSmartQueue == AllocateSmartQueue

SpecSmartQueue == InitSmartQueue /\ [][NextSmartQueue]_vars

RECURSIVE PlacedWheneverFits(_, _, _, _, _)
\* going through the jobs in the order smart_queue considers them, with the
\* remaining cores and memory the placements made so far leave: a job of
\* the result is charged to its node, a job missing from it fits no node
PlacedWheneverFits(nodes, jobs, placed, i, resources) ==
    IF i > Len(jobs) THEN TRUE
    ELSE LET mine == {a \in DOMAIN placed : placed[a].job = jobs[i].id}
         IN IF mine = {}
            THEN /\ \A k \in DOMAIN nodes : ~Fits(resources[k], jobs[i])
                 /\ PlacedWheneverFits(nodes, jobs, placed, i + 1, resources)
            ELSE LET a == CHOOSE x \in mine : TRUE
                     k == CHOOSE x \in DOMAIN nodes :
                              nodes[x].name = placed[a].allocated_node
                 IN PlacedWheneverFits(nodes, jobs, placed, i + 1,
                        [resources EXCEPT ![k] = Take(resources[k], jobs[i])])

\* C36: smart_queue places every job for which, when the job is considered,
\* at least one node has remaining cores and remaining memory at least the
\* job's requirement; a job is left unplaced only when no node fits it.
C36_SmartQueuePlacesFittingJobs ==
    (alloc_strategy = "smart_queue" /\ ~alloc_result.error) =>
        LET available == FilterAvailableNodes(alloc_nodes, alloc_config)
        IN PlacedWheneverFits(available,
                              SortByCpusDesc(alloc_jobs, 1, <<>>),
                              alloc_result.jobs, 1, NodeResources(available))

\* C30: with J jobs and N available nodes after filtering, the hybrid
\* strategy returns the placement of batch_allocation when J <= N, that of
\* smart_queue when N < J <= 3N, and that of node_reuse when J > 3N.
C30_HybridDelegates ==
    (alloc_strategy = "hybrid" /\ ~alloc_result.error) =>
        LET available == FilterAvailableNodes(alloc_nodes, alloc_config)
            J == Len(alloc_jobs)
            N == Len(available)
        IN /\ J <= N =>
                alloc_result.jobs
                    = BatchAllocation(available, alloc_jobs, alloc_config)
           /\ (N < J /\ J <= 3 * N) =>
                alloc_result.jobs
                    = SmartQueue(available, alloc_jobs, alloc_config)
           /\ J > 3 * N =>
                alloc_result.jobs
                    = NodeReuse(available, alloc_jobs, alloc_config)

\* four jobs on one available node: the placement is node_reuse's and not
\* the one smart_queue would have returned
C30_Witness ==
    /\ alloc_strategy = "hybrid"
    /\ ~alloc_result.error
    /\ Len(alloc_jobs) = 4
    /\ LET available == FilterAvailableNodes(alloc_nodes, alloc_config)
       IN /\ Len(available) = 1
          /\ alloc_result.jobs
                = NodeReuse(available, alloc_jobs, alloc_config)
          /\ alloc_result.jobs
                # SmartQueue(available, alloc_jobs, alloc_config)

\* ------------------------------------------------------------------------
\* JobMonitor
\* ------------------------------------------------------------------------
JobStates == {"pending", "running", "completed", "failed", "cancelled",
              "timeout", "unknown"}

\* _parse_slurm_state
ParseSlurmState(state_str) ==
    CASE state_str = "PENDING"       -> "pending"
      [] state_str = "RUNNING"       -> "running"
      [] state_str = "COMPLETED"     -> "completed"
      [] state_str = "CANCELLED"     -> "cancelled"
      [] state_str = "FAILED"        -> "failed"
      [] state_str = "TIMEOUT"       -> "timeout"
      [] state_str = "NODE_FAIL"     -> "failed"
      [] state_str = "PREEMPTED"     -> "cancelled"
      [] state_str = "OUT_OF_MEMORY" -> "failed"
      [] OTHER                       -> "unknown"

\* _parse_pbs_state
ParsePbsState(state_str) ==
    CASE state_str = "Q" -> "pending"
      [] state_str = "R" -> "running"
      [] state_str = "C" -> "completed"
      [] state_str = "E" -> "completed"
      [] state_str = "H" -> "pending"
      [] state_str = "T" -> "running"
      [] state_str = "W" -> "pending"
      [] state_str = "S" -> "pending"
      [] OTHER           -> "unknown"

\* what the status commands of one query answer: exc is an exception raised
\* by exec_command; rc1/out1 are exit status and state column of sacct (SLURM)
\* or qstat -f (PBS), rc2/out2 those of the squeue fallback; "" is no output
Response(exc, rc1, out1, rc2, out2) ==
    [exc |-> exc, rc1 |-> rc1, out1 |-> out1, rc2 |-> rc2, out2 |-> out2]

\* _check_slurm_job
CheckSlurmJob(r) ==
    IF r.exc THEN "unknown"
    ELSE IF r.rc1 # 0
         THEN (IF r.rc2 = 0 /\ r.out2 # "" THEN ParseSlurmState(r.out2)
               ELSE "completed")
         ELSE IF r.out1 = "" THEN "unknown"
              ELSE ParseSlurmState(r.out1)

\* _check_pbs_job
CheckPbsJob(r) ==
    IF r.exc THEN "unknown"
    ELSE IF r.rc1 # 0 THEN "completed"
         ELSE ParsePbsState(r.out1)

\* _check_job_status
CheckJobStatus(dialect, r) ==
    IF dialect = "SLURM" THEN CheckSlurmJob(r) ELSE CheckPbsJob(r)

\* the answers the cluster can give about a job it records as cj: sacct has a
\* row once the job is in the accounting database, squeue and qstat list a job
\* until it is purged
Responses(dialect, acct, cj) ==
    {Response(TRUE, 0, "", 0, "")} \cup
    (IF dialect = "SLURM"
     THEN (IF acct
           THEN {Response(FALSE, 0, cj.state, 0, "")} \cup
                (IF cj.state = "PENDING"
                 THEN {Response(FALSE, 0, "", 0, "")} ELSE {})
           ELSE IF cj.listed
                THEN {Response(FALSE, 1, "", 0, cj.state)}
                ELSE {Response(FALSE, 1, "", 0, ""),
                      Response(FALSE, 1, "", 1, "")})
     ELSE (IF cj.listed
           THEN {Response(FALSE, 0, cj.state, 0, "")}
           ELSE {Response(FALSE, 1, "", 0, "")}))

\* "if job_data['state'] in [COMPLETED, FAILED, CANCELLED]: continue"
SkippedStates == {"completed", "failed", "cancelled"}

\* the states for which _update_job_state records the end time
EndTimeStates == {"completed", "failed", "cancelled"}

\* _update_job_state: end_time is set and, when a start time is known, the
\* runtime computed on a change to one of EndTimeStates; job_info is merged
\* into job_status_info, so an "error" key stays once it was set
UpdateJobState(job_data, new_state, has_error) ==
    LET updated ==
          IF job_data.state = new_state THEN job_data
          ELSE [job_data EXCEPT
                  !.state = new_state,
                  !.start_time = IF new_state = "running" THEN TRUE ELSE @,
                  !.end_time = IF new_state \in EndTimeStates THEN TRUE ELSE @,
                  !.runtime = IF new_state \in EndTimeStates
                                 /\ job_data.start_time
                              THEN TRUE ELSE @]
    IN [updated EXCEPT !.status_error = @ \/ has_error]

\* the number of consecutive status queries of a job that raised, counted up
\* to FailureLimit; the monitor itself keeps no such count
FailureLimit == 3

ConsecutiveFailures(failures, raised) ==
    IF ~raised THEN 0
    ELSE IF failures < FailureLimit THEN failures + 1 ELSE FailureLimit

\* _check_all_jobs, resp[j] being the cluster's answer about job j
CheckAllJobs(jobs, dialect, resp) ==
    [j \in DOMAIN jobs |->
        IF jobs[j].state \in SkippedStates THEN jobs[j]
        ELSE [UpdateJobState(jobs[j], CheckJobStatus(dialect, resp[j]),
                             resp[j].exc)
                EXCEPT !.failures = ConsecutiveFailures(@, resp[j].exc)]]

\* the condition under which _download_completed_results calls
\* download_results for a job, without "and not job_data['downloaded']"
NeedsDownloadWhileCompleted(job_data) == job_data.state = "completed"

\* "if job_data['state'] == JobState.COMPLETED and not job_data['downloaded']"
NeedsDownload(job_data) ==
    job_data.state = "completed" /\ ~job_data.downloaded

\* _download_completed_results: download_results is called for every
\* completed job not yet downloaded, fetched being the jobs for which the
\* call returns; download_called tells whether this pass made the call, an
\* exception of the call leaves downloaded as it was
DownloadCompletedResults(jobs, fetched) ==
    [j \in DOMAIN jobs |->
        IF NeedsDownload(jobs[j])
        THEN [jobs[j] EXCEPT !.download_requested = TRUE,
                             !.download_called = TRUE,
                             !.downloaded = @ \/ j \in fetched]
        ELSE [jobs[j] EXCEPT !.download_called = FALSE]]

\* _has_active_jobs
HasActiveJobs(jobs) ==
    \E j \in DOMAIN jobs : jobs[j].state \in {"pending", "running"}

\* start_monitoring
StartMonitoring ==
    /\ mon_pc = "idle"
    /\ IF config.enable_monitoring
       THEN /\ monitoring' = TRUE
            /\ monitored_jobs' =
                  [j \in DOMAIN cluster_jobs |->
                      [state |-> "pending", start_time |-> FALSE,
                       end_time |-> FALSE, runtime |-> FALSE,
                       status_error |-> FALSE, failures |-> 0,
                       download_requested |-> FALSE,
                       download_called |-> FALSE,
                       downloaded |-> FALSE]]
       ELSE UNCHANGED <<monitoring, monitored_jobs>>
    /\ mon_pc' = "loop"
    /\ UNCHANGED <<auto_download_results, accounting, cluster_jobs>>
    /\ UNCHANGED nonMonVars

\* one pass of the while loop of monitor_jobs up to the sleep
MonitorCycle ==
    /\ mon_pc = "loop"
    /\ monitoring /\ HasActiveJobs(monitored_jobs)
    /\ \E resp \in [DOMAIN monitored_jobs ->
                      UNION {Responses(scheduler_type, accounting, cluster_jobs[j]) :
                                j \in DOMAIN monitored_jobs}],
          fetched \in SUBSET (DOMAIN monitored_jobs) :
        /\ \A j \in DOMAIN monitored_jobs :
              resp[j] \in Responses(scheduler_type, accounting, cluster_jobs[j])
        /\ LET checked == CheckAllJobs(monitored_jobs, scheduler_type, resp)
               after == IF auto_download_results
                        THEN DownloadCompletedResults(checked, fetched)
                        ELSE checked
           IN /\ monitored_jobs' = after
              /\ mon_pc' = IF HasActiveJobs(after) THEN "sleep" ELSE "report"
    /\ UNCHANGED <<monitoring, auto_download_results, accounting, cluster_jobs>>
    /\ UNCHANGED nonMonVars

\* time.sleep(monitor_interval) returns
MonitorSleep ==
    /\ mon_pc = "sleep"
    /\ mon_pc' = "loop"
    /\ UNCHANGED <<monitoring, monitored_jobs, auto_download_results,
                   accounting, cluster_jobs>>
    /\ UNCHANGED nonMonVars

\* the while condition of monitor_jobs is false
MonitorLoopExit ==
    /\ mon_pc = "loop"
    /\ ~(monitoring /\ HasActiveJobs(monitored_jobs))
    /\ mon_pc' = "report"
    /\ UNCHANGED <<monitoring, monitored_jobs, auto_download_results,
                   accounting, cluster_jobs>>
    /\ UNCHANGED nonMonVars

\* _generate_monitoring_report, _save_monitoring_report and the return
MonitorReturn ==
    /\ mon_pc = "report"
    /\ mon_pc' = "returned"
    /\ UNCHANGED <<monitoring, monitored_jobs, auto_download_results,
                   accounting, cluster_jobs>>
    /\ UNCHANGED nonMonVars

\* KeyboardInterrupt during the sleep: the except branch of monitor_jobs
MonitorInterrupt ==
    /\ mon_pc = "sleep"
    /\ monitoring' = FALSE
    /\ mon_pc' = "interrupted"
    /\ UNCHANGED <<monitored_jobs, auto_download_results, accounting,
                   cluster_jobs>>
    /\ UNCHANGED nonMonVars

\* the cluster: a job moves from from to to in the scheduler's records
ClusterStep(j, from, to) ==
    /\ cluster_jobs[j].state = from
    /\ cluster_jobs' = [cluster_jobs EXCEPT ![j].state = to]
    /\ UNCHANGED <<monitoring, monitored_jobs, mon_pc, auto_download_results,
                   accounting>>
    /\ UNCHANGED nonMonVars

EndStates(dialect) ==
    IF dialect = "SLURM" THEN {"COMPLETED", "FAILED", "CANCELLED", "TIMEOUT"}
    ELSE {"C"}

ClusterStart ==
    \E j \in DOMAIN cluster_jobs :
        IF scheduler_type = "SLURM" THEN ClusterStep(j, "PENDING", "RUNNING")
        ELSE ClusterStep(j, "Q", "R")

ClusterEnd ==
    \E j \in DOMAIN cluster_jobs :
        IF scheduler_type = "SLURM"
        THEN \E to \in EndStates("SLURM") : ClusterStep(j, "RUNNING", to)
        ELSE ClusterStep(j, "R", "E") \/ ClusterStep(j, "E", "C")

\* a finished job drops out of the squeue / qstat listing
ClusterPurge ==
    \E j \in DOMAIN cluster_jobs :
        /\ cluster_jobs[j].state \in EndStates(scheduler_type)
        /\ cluster_jobs[j].listed
        /\ cluster_jobs' = [cluster_jobs EXCEPT ![j].listed = FALSE]
        /\ UNCHANGED <<monitoring, monitored_jobs, mon_pc,
                       auto_download_results, accounting>>
        /\ UNCHANGED nonMonVars

InitMonitor ==
    /\ config \in {c \in Configs :
                     /\ c.enable_node_detection /\ c.cfx_mode = "local"
                     /\ ~c.skip_cfx_verification /\ c.cfx_pre_executable}
    /\ validation_errors = {}
    /\ pressure_list = <<>>
    /\ wf_pc = "start"
    /\ current_step = ""
    /\ completed_steps = <<>>
    /\ failed_steps = <<>>
    /\ ssh_open = FALSE
    /\ def_files = <<>>
    /\ cfx_returncode = -1
    /\ report_written = FALSE
    /\ wf_result = "none"
    /\ exit_code = -1
    /\ PipeIdle
    /\ scheduler_type \in {"SLURM", "PBS"}
    /\ DriverIdle
    /\ AllocIdle
    /\ CallIdle
    /\ TransferIdle
    /\ HistoryIdle
    /\ StepOnlyIdle
    /\ monitoring = FALSE
    /\ monitored_jobs = <<>>
    /\ mon_pc = "idle"
    /\ auto_download_results \in BOOLEAN
    /\ accounting \in BOOLEAN
    /\ \E n \in 0..MaxMonJobs :
          cluster_jobs = [j \in 1..n |->
              [state |-> IF scheduler_type = "SLURM" THEN "PENDING" ELSE "Q",
               listed |-> TRUE]]

NextMonitor ==
    \/ StartMonitoring
    \/ MonitorCycle
    \/ MonitorSleep
    \/ MonitorLoopExit
    \/ MonitorReturn
    \/ MonitorInterrupt
    \/ ClusterStart
    \/ ClusterEnd
    \/ ClusterPurge

SpecMonitor == InitMonitor /\ [][NextMonitor]_vars

\* monitor_jobs with auto_download_results set, on a SLURM cluster with
\* accounting
MaxDownloadJobs == 2

InitDownload ==
    /\ InitMonitor
    /\ config.enable_monitoring
    /\ scheduler_type = "SLURM"
    /\ auto_download_results
    /\ accounting
    /\ Len(cluster_jobs) <= MaxDownloadJobs

SpecDownload == InitDownload /\ [][NextMonitor]_vars

\* C38: for every monitored job and over any sequence of poll cycles, result
\* collection is requested only while the job's recorded state is completed,
\* and once a collection has succeeded (downloaded = true) it is never
\* requested again for that job; downloaded = true implies state =
\* completed.
C38_DownloadOnlyCompletedOnce ==
    [][\A j \in DOMAIN monitored_jobs' :
          /\ monitored_jobs'[j].download_called
                => monitored_jobs'[j].state = "completed"
          /\ monitored_jobs'[j].downloaded
                => monitored_jobs'[j].state = "completed"
          /\ (/\ j \in DOMAIN monitored_jobs
              /\ monitored_jobs[j].downloaded)
                => /\ monitored_jobs'[j].downloaded
                   /\ (mon_pc = "loop" /\ mon_pc' # "loop")
                         => ~monitored_jobs'[j].download_called
      ]_vars

\* a later poll cycle has gone over a job that was downloaded before
C38_Witness ==
    /\ Len(monitored_jobs) = 2
    /\ monitored_jobs[1].downloaded
    /\ ~monitored_jobs[1].download_called
    /\ monitored_jobs[2].state = "completed"
    /\ monitored_jobs[2].download_called
    /\ ~monitored_jobs[2].downloaded

TerminalStates == {"completed", "failed", "cancelled", "timeout"}

\* C9: a job's recorded state never changes once it is completed, failed,
\* cancelled or timeout, and never goes from running back to pending.
C9_StateMonotone ==
    [][\A j \in DOMAIN monitored_jobs :
          j \in DOMAIN monitored_jobs' =>
            /\ monitored_jobs[j].state \in TerminalStates
                  => monitored_jobs'[j].state = monitored_jobs[j].state
            /\ monitored_jobs[j].state = "running"
                  => monitored_jobs'[j].state # "pending"]_vars

\* C10: monitor_jobs has returned normally exactly when every monitored job
\* is recorded in a terminal state; it never returns normally with a job
\* recorded as pending, running or unknown.
C10_ReturnIffAllTerminal ==
    mon_pc \in {"returned", "interrupted"} =>
        ((mon_pc = "returned") <=>
            \A j \in DOMAIN monitored_jobs :
                monitored_jobs[j].state \in TerminalStates)

\* the monitor under the premises of the polling loop: the process keeps
\* running (every step of monitor_jobs that can be taken is taken) and every
\* job on the cluster starts and ends; the user may or may not interrupt
SpecMonitorLive ==
    /\ InitMonitor
    /\ [][NextMonitor]_vars
    /\ WF_vars(StartMonitoring)
    /\ WF_vars(MonitorCycle)
    /\ WF_vars(MonitorSleep)
    /\ WF_vars(MonitorLoopExit)
    /\ WF_vars(MonitorReturn)
    /\ WF_vars(ClusterStart)
    /\ WF_vars(ClusterEnd)

\* no status query of the run has raised
QueriesSucceeded ==
    \A j \in DOMAIN monitored_jobs : ~monitored_jobs[j].status_error

\* monitor_jobs comes to an end (it returns, or the user interrupts it)
MonitorEventuallyEnds == <>(mon_pc \in {"returned", "interrupted"})

\* C23: when every job ends on the scheduler and the status queries succeed,
\* monitor_jobs eventually returns, and it does not return before that while
\* a job is still recorded in a non-terminal state.
C23_PollsUntilAllTerminal ==
    /\ MonitorEventuallyEnds
    /\ [](mon_pc = "returned" /\ QueriesSucceeded =>
            \A j \in DOMAIN monitored_jobs :
                monitored_jobs[j].state \in TerminalStates)

\* C25: a status query of a job that raises as the first or the second in a
\* row leaves the job's recorded state unchanged; only the third consecutive
\* failure marks the job unknown.
C25_UnknownAtThirdFailure ==
    [][\A j \in DOMAIN monitored_jobs :
          (/\ j \in DOMAIN monitored_jobs'
           /\ monitored_jobs'[j].failures # monitored_jobs[j].failures
           /\ monitored_jobs'[j].failures \in 1..(FailureLimit - 1))
              => monitored_jobs'[j].state = monitored_jobs[j].state]_vars

\* C26: every job recorded in a terminal state (completed, failed, cancelled
\* or timeout) has its end time recorded and its runtime computed, and with
\* auto-download enabled its result collection has been requested.
C26_TerminalBookkeeping ==
    \A j \in DOMAIN monitored_jobs :
        monitored_jobs[j].state \in TerminalStates =>
            /\ monitored_jobs[j].end_time
            /\ monitored_jobs[j].runtime
            /\ auto_download_results => monitored_jobs[j].download_requested

\* ------------------------------------------------------------------------
\* _check_job_status called on its own
\* ------------------------------------------------------------------------
\* the state column a status command can print ("": it prints nothing)
StatusOutputs(dialect) ==
    IF dialect = "SLURM"
    THEN {"", "PENDING", "RUNNING", "COMPLETED", "FAILED", "CANCELLED",
          "TIMEOUT"}
    ELSE {"", "Q", "R", "E", "C"}

\* every answer the status commands can give, whatever the cluster holds
AllResponses(dialect) ==
    {Response(exc, rc1, out1, rc2, out2) :
        exc \in BOOLEAN, rc1 \in {0, 1}, out1 \in StatusOutputs(dialect),
        rc2 \in {0, 1}, out2 \in StatusOutputs(dialect)}

\* _check_job_status(ssh_client, job_id, scheduler_type)
CheckStatus ==
    /\ ~call_done
    /\ call_result' = <<CheckJobStatus(call_args.dialect, call_args.response)>>
    /\ call_done' = TRUE
    /\ UNCHANGED call_args
    /\ UNCHANGED <<wfVars, drvVars, allocVars, monVars, xferVars,
                   histVars, stepVars>>

InitStatusQuery ==
    /\ WorkflowIdle
    /\ scheduler_type = "SLURM"
    /\ DriverIdle
    /\ AllocIdle
    /\ MonitorIdle
    /\ TransferIdle
    /\ HistoryIdle
    /\ StepOnlyIdle
    /\ \E dialect \in {"SLURM", "PBS"} :
          \E r \in AllResponses(dialect) :
              call_args = [dialect |-> dialect, response |-> r]
    /\ call_result = <<>>
    /\ call_done = FALSE

NextStatusQuery == CheckStatus

SpecStatusQuery == InitStatusQuery /\ [][NextStatusQuery]_vars

\* C24: a query that raises nothing and finds no record of the job (SLURM: no
\* sacct row and no squeue row; PBS: no qstat output) gives completed, and
\* for SLURM the squeue answer is used whenever sacct has no row.
C24_NoRecordMeansCompleted ==
    call_done =>
        LET r == call_args.response
            no_row1 == r.rc1 # 0 \/ r.out1 = ""
            no_row2 == r.rc2 # 0 \/ r.out2 = ""
        IN (~r.exc /\ no_row1) =>
              IF call_args.dialect = "SLURM"
              THEN call_result[1] = IF no_row2 THEN "completed"
                                    ELSE ParseSlurmState(r.out2)
              ELSE call_result[1] = "completed"

\* ------------------------------------------------------------------------
\* _submit_jobs: parsing the output of Submit_All.sh
\* ------------------------------------------------------------------------
MaxOutputLines == 3

\* a word made of digits only
IsDigits(w) == w \in {JobId(j) : j \in 0..9}

\* lines the standard output of Submit_All.sh can hold: sbatch's answer, its
\* answer on a multi-cluster submission ("... on cluster <name>"), an echo of
\* the script, the bare prefix, an echo that quotes sbatch's answer
OutputLines ==
    {<<"Submitted", "batch", "job", "1">>,
     <<"Submitted", "batch", "job", "2">>,
     <<"Submitted", "batch", "job", "1", "on", "cluster", "c1">>,
     <<"echo">>,
     <<"Submitted", "batch", "job">>,
     <<"sbatch:", "error:", "Batch", "job", "submission", "failed">>}

\* the line matches ^Submitted batch job <digits>$
MatchesSubmitted(line) ==
    /\ Len(line) = 4
    /\ line[1] = "Submitted" /\ line[2] = "batch" /\ line[3] = "job"
    /\ IsDigits(line[4])

\* the parsing loop of _submit_jobs applied to an output
ParseSubmitOutput ==
    /\ ~call_done
    /\ submitted_jobs' = ParseSubmittedJobs(submit_output, 1)
    /\ call_done' = TRUE
    /\ UNCHANGED <<call_args, call_result>>
    /\ UNCHANGED <<config, validation_errors, pressure_list, wf_pc, current_step, completed_steps,
                   failed_steps, ssh_open, def_files, cfx_returncode,
                   report_written, wf_result, exit_code, cluster_status,
                   generated_scripts, submit_log, submit_output, interrupted,
                   monitoring_report>>
    /\ UNCHANGED <<drvVars, allocVars, monVars, xferVars, histVars, stepVars>>

InitSubmitParse ==
    /\ OrchestratorIdle
    /\ cluster_status = [none |-> TRUE, total |-> 0, available |-> 0]
    /\ generated_scripts = [job_scripts |-> <<>>, submit_script |-> <<>>,
                            queue_strategy |-> ""]
    /\ submit_log = <<>>
    /\ \E n \in 0..MaxOutputLines : submit_output \in [1..n -> OutputLines]
    /\ submitted_jobs = <<>>
    /\ interrupted = FALSE
    /\ monitoring_report = "none"
    /\ scheduler_type = "SLURM"
    /\ DriverIdle
    /\ AllocIdle
    /\ MonitorIdle
    /\ CallIdle
    /\ TransferIdle
    /\ HistoryIdle
    /\ StepOnlyIdle

NextSubmitParse == ParseSubmitOutput

SpecSubmitParse == InitSubmitParse /\ [][NextSubmitParse]_vars

\* C12: the job ids returned for SLURM are exactly the ids on the output lines
\* that match ^Submitted batch job <digits>$, in output order; there is one
\* job record per such line and none for any other line.
C12_IdsOfMatchingLines ==
    call_done =>
        LET matching == SelectSeq(submit_output, MatchesSubmitted)
        IN /\ Len(submitted_jobs) = Len(matching)
           /\ \A i \in 1..Len(matching) :
                 i <= Len(submitted_jobs) =>
                     submitted_jobs[i].job_id = matching[i][4]

\* ------------------------------------------------------------------------
\* ClusterQueryManager: the node inventory parsers
\* ------------------------------------------------------------------------
MaxNodeLines == 3

\* the node states "sinfo -o %t" prints (compact form, a trailing flag for a
\* node that does not respond or is powered down) and the states pbsnodes
\* prints, a list of them when several apply
RawSlurmStates == {"idle", "alloc", "mix", "down", "drain", "comp", "resv",
                   "idle*", "mix~", "drng", "maint"}
RawPbsStates == {"free", "job-exclusive", "job-sharing", "down", "offline",
                 "busy", "state-unknown", "down,offline",
                 "job-exclusive,busy"}

\* str.lower() on the words above: they are all in lower case already, the
\* upper-case spellings are mapped as well
Lower(w) ==
    CASE w = "IDLE" -> "idle"
      [] w = "MIX"  -> "mix"
      [] w = "FREE" -> "free"
      [] OTHER      -> w

\* _normalize_slurm_state
NormalizeSlurmState(state) ==
    CASE Lower(state) = "idle"  -> "idle"
      [] Lower(state) = "alloc" -> "allocated"
      [] Lower(state) = "mix"   -> "mixed"
      [] Lower(state) = "down"  -> "down"
      [] Lower(state) = "drain" -> "draining"
      [] Lower(state) = "comp"  -> "completing"
      [] Lower(state) = "resv"  -> "reserved"
      [] OTHER                  -> state

\* _is_slurm_node_available that takes an allocated node as available too
IsSlurmNodeAvailableWithAlloc(state) == Lower(state) \in {"idle", "mix", "alloc"}

\* _is_slurm_node_available
IsSlurmNodeAvailable(state) == Lower(state) \in {"idle", "mix"}

\* _normalize_pbs_state
NormalizePbsState(state) ==
    CASE Lower(state) = "free"          -> "idle"
      [] Lower(state) = "job-exclusive" -> "allocated"
      [] Lower(state) = "job-sharing"   -> "mixed"
      [] Lower(state) = "down"          -> "down"
      [] Lower(state) = "offline"       -> "offline"
      [] Lower(state) = "busy"          -> "busy"
      [] Lower(state) = "state-unknown" -> "unknown"
      [] OTHER                          -> state

\* _is_pbs_node_available
IsPbsNodeAvailable(state) == Lower(state) \in {"free"}

\* a line of the sinfo output as its fields (line.split()); a line of the
\* pbsnodes output as a node name, an attribute "key = value" or a blank line
\* the value of a status attribute is kept as its comma-separated items,
\* each split at its first "=": <<key, value>>, or <<word>> when it has none
SlurmLines ==
    {<<"n1", "4", "8000", st, "cpu">> : st \in RawSlurmStates}
        \cup {<<"n2", "4", st>> : st \in {"idle"}}
PbsLines ==
    {[kind |-> "attr", key |-> "state", value |-> st, items |-> <<>>] :
        st \in RawPbsStates}
        \cup {[kind |-> "name", key |-> "", value |-> name, items |-> <<>>] :
                 name \in {"node1", "node2"}}
        \cup {[kind |-> "attr", key |-> "status", value |-> "", items |-> it] :
                 it \in {<<<<"totmem", "8gb">>, <<"ncpus", "4">>>>,
                         <<<<"totmem">>, <<"garbage">>>>}}
        \cup {[kind |-> "attr", key |-> "np", value |-> "4", items |-> <<>>],
              [kind |-> "blank", key |-> "", value |-> "", items |-> <<>>]}

\* _parse_memory_size on the sizes of the model, in MB
ParseMemorySize(memory_str) ==
    CASE memory_str = "8000" -> 8000
      [] memory_str = "8gb"  -> 8192
      [] OTHER               -> 0

RECURSIVE ParseSlurmOutput(_, _)
\* _parse_slurm_output: one record per line of at least five fields
ParseSlurmOutput(lines, i) ==
    IF i > Len(lines) THEN <<>>
    ELSE (IF Len(lines[i]) >= 5
          THEN <<[name |-> lines[i][1],
                  memory |-> ParseMemorySize(lines[i][3]),
                  state |-> NormalizeSlurmState(lines[i][4]),
                  available |-> IsSlurmNodeAvailable(lines[i][4]),
                  scheduler |-> "SLURM"]>>
          ELSE <<>>) \o ParseSlurmOutput(lines, i + 1)

\* the record _parse_pbs_output opens at a node name
NewPbsNode(name) ==
    [name |-> name, memory |-> 0, state |-> "unknown", available |-> FALSE,
     scheduler |-> "PBS"]

RECURSIVE ParsePbsStatusField(_, _, _)
\* _parse_pbs_status_field: an item without "=" is passed over, totmem sets
\* the memory of the node
ParsePbsStatusField(node_info, items, k) ==
    IF k > Len(items) THEN node_info
    ELSE IF Len(items[k]) = 2 /\ items[k][1] = "totmem"
         THEN ParsePbsStatusField(
                  [node_info EXCEPT !.memory = ParseMemorySize(items[k][2])],
                  items, k + 1)
         ELSE ParsePbsStatusField(node_info, items, k + 1)

RECURSIVE ParsePbsOutput(_, _, _, _)
\* _parse_pbs_output: current is the sequence holding current_node, empty for
\* None
ParsePbsOutput(lines, i, current, nodes) ==
    IF i > Len(lines) THEN nodes \o current
    ELSE LET line == lines[i]
         IN CASE line.kind = "blank" ->
                   ParsePbsOutput(lines, i + 1, <<>>, nodes \o current)
              [] line.kind = "name" ->
                   ParsePbsOutput(lines, i + 1, <<NewPbsNode(line.value)>>,
                                  nodes \o current)
              [] OTHER ->
                   IF current # <<>> /\ line.key = "state"
                   THEN ParsePbsOutput(lines, i + 1,
                          <<[current[1] EXCEPT
                               !.state = NormalizePbsState(line.value),
                               !.available = IsPbsNodeAvailable(line.value)]>>,
                          nodes)
                   ELSE IF current # <<>> /\ line.key = "status"
                   THEN ParsePbsOutput(lines, i + 1,
                          <<ParsePbsStatusField(current[1], line.items, 1)>>,
                          nodes)
                   ELSE ParsePbsOutput(lines, i + 1, current, nodes)

\* the parser of the dialect applied to the output of the node query
ParseNodes ==
    /\ ~call_done
    /\ call_result' = IF call_args.dialect = "SLURM"
                      THEN ParseSlurmOutput(call_args.output, 1)
                      ELSE ParsePbsOutput(call_args.output, 1, <<>>, <<>>)
    /\ call_done' = TRUE
    /\ UNCHANGED call_args
    /\ UNCHANGED <<wfVars, drvVars, allocVars, monVars, xferVars,
                   histVars, stepVars>>

InitNodeParse ==
    /\ WorkflowIdle
    /\ scheduler_type = "SLURM"
    /\ DriverIdle
    /\ AllocIdle
    /\ MonitorIdle
    /\ TransferIdle
    /\ HistoryIdle
    /\ StepOnlyIdle
    /\ \E n \in 0..MaxNodeLines :
          \/ \E out \in [1..n -> SlurmLines] :
                call_args = [dialect |-> "SLURM", output |-> out]
          \/ \E out \in [1..n -> PbsLines] :
                call_args = [dialect |-> "PBS", output |-> out]
    /\ call_result = <<>>
    /\ call_done = FALSE

NextNodeParse == ParseNodes

SpecNodeParse == InitNodeParse /\ [][NextNodeParse]_vars

\* the normalized states of an available node in the dialect table
IdleLike(dialect) == IF dialect = "SLURM" THEN {"idle", "mixed"} ELSE {"idle"}

\* C14: in every node record the SLURM or the PBS parser produces, available
\* is true exactly when the normalized state is idle-like for the dialect
\* (SLURM: idle or mixed; PBS: idle).
C14_AvailableIffIdleLike ==
    call_done =>
        \A i \in 1..Len(call_result) :
            call_result[i].available
                <=> call_result[i].state \in IdleLike(call_result[i].scheduler)

C14_Witness ==
    /\ call_done
    /\ \E i, j \in 1..Len(call_result) :
          /\ call_result[i].available
          /\ ~call_result[j].available
          /\ call_result[j].state = "allocated"

\* the status attribute holds only key=value items
WellFormedStatus(items) == \A k \in 1..Len(items) : Len(items[k]) = 2

\* the lines of the pbsnodes output that belong to the node named at line i
NodeBlock(lines, i) ==
    {j \in (i + 1)..Len(lines) :
        \A k \in (i + 1)..j : lines[k].kind = "attr"}

\* the node named at line i has a status line that cannot be parsed
MalformedNode(lines, i) ==
    \E j \in NodeBlock(lines, i) :
        lines[j].key = "status" /\ ~WellFormedStatus(lines[j].items)

RECURSIVE NamesOfParsableNodes(_, _)
\* the names of the nodes of the output that can be parsed, in output order
NamesOfParsableNodes(lines, i) ==
    IF i > Len(lines) THEN <<>>
    ELSE (IF lines[i].kind = "name" /\ ~MalformedNode(lines, i)
          THEN <<lines[i].value>> ELSE <<>>)
         \o NamesOfParsableNodes(lines, i + 1)

\* C21: the node list the PBS parser returns omits exactly the nodes whose
\* status line cannot be parsed and holds every other node of the output;
\* the SLURM parser omits exactly the lines with too few fields.
C21_UnparsableNodeOmitted ==
    call_done =>
        [i \in 1..Len(call_result) |-> call_result[i].name]
            = IF call_args.dialect = "PBS"
              THEN NamesOfParsableNodes(call_args.output, 1)
              ELSE [i \in 1..Len(SelectSeq(call_args.output,
                                           LAMBDA l : Len(l) >= 5)) |-> "n1"]

\* C22: the normalized state of every node record either parser produces is
\* one of idle, allocated, mixed, down, offline, draining, completing,
\* reserved, unknown.
C22_StateInClosedSet ==
    call_done =>
        \A i \in 1..Len(call_result) :
            call_result[i].state \in
                {"idle", "allocated", "mixed", "down", "offline", "draining",
                 "completing", "reserved", "unknown"}

\* C17: a job whose required cores exceed the cores of every available node
\* is left out of the placed jobs and the result's warnings hold an
\* unplaced-jobs warning; an error is raised only if no job could be placed.
C17_UnplacedJobWarned ==
    alloc_strategy \in Strategies =>
        LET available == FilterAvailableNodes(alloc_nodes, alloc_config)
            TooBig(job) == \A k \in 1..Len(available) :
                               available[k].cpus < job.cpus
            Placed(job) == \E i \in 1..Len(alloc_result.jobs) :
                               alloc_result.jobs[i].job = job.id
        IN /\ alloc_result.error => alloc_result.jobs = <<>>
           /\ ~alloc_result.error =>
                \A j \in 1..Len(alloc_jobs) :
                    TooBig(alloc_jobs[j]) =>
                        /\ ~Placed(alloc_jobs[j])
                        /\ "unplaced jobs" \in alloc_result.warnings

\* ------------------------------------------------------------------------
\* FileTransferManager.upload_files / download_files (transfer.py)
\* ------------------------------------------------------------------------
\* longest file list of a call
MaxFiles == 3

\* largest config.transfer_retry_times
MaxRetries == 2

\* the paths a call can name: two data files and a script
Files == {"case.def", "case.res", "Submit_All.sh"}

\* local_file.endswith(('.sh', '.slurm'))
IsScript(path) == path = "Submit_All.sh"

\* the bytes of each file at its source; CR and LF are the two line-ending
\* bytes, every other byte is text
SourceBytes(path) ==
    CASE path = "case.def" -> <<"d", "CR", "LF", "e">>
      [] path = "case.res" -> <<"r", "LF">>
      [] OTHER -> <<"s", "CR", "LF", "t", "CR">>

RECURSIVE NormalizeLineEndings(_, _)
\* content.replace('\r\n', '\n').replace('\r', '\n'), from byte i on
NormalizeLineEndings(content, i) ==
    IF i > Len(content) THEN <<>>
    ELSE IF content[i] = "CR"
         THEN IF i < Len(content) /\ content[i + 1] = "LF"
              THEN <<"LF">> \o NormalizeLineEndings(content, i + 2)
              ELSE <<"LF">> \o NormalizeLineEndings(content, i + 1)
         ELSE <<content[i]>> \o NormalizeLineEndings(content, i + 1)

\* what the transport is asked to write at the destination: upload rewrites
\* a script with normalised line endings, everything else is copied
Payload(dir, path) ==
    IF dir = "upload" /\ IsScript(path)
    THEN NormalizeLineEndings(SourceBytes(path), 1)
    ELSE SourceBytes(path)

\* bytes that reached the destination damaged (same length, first byte wrong)
Damaged(content) == [content EXCEPT ![1] = "?"]

\* _calculate_file_hash / _calculate_remote_file_hash: MD5 of the bytes,
\* taken to be free of collisions on the files of the model
FileHash(content) == <<"md5", content>>

\* _verify_file_integrity: hash_raises is whether computing a hash raised
VerifyFileIntegrity(src_bytes, dst_bytes, hash_raises) ==
    IF hash_raises THEN TRUE
    ELSE FileHash(src_bytes) = FileHash(dst_bytes)

\* whether the integrity check runs for this file
VerificationApplies(cfg, dir, path) ==
    /\ cfg.enable_checksum_verification
    /\ (dir = "download" \/ ~IsScript(path))

\* the file of the list the loop goes to after a file failed for good
AfterFileFailedBreak(files, i) == Len(files) + 1

\* "continue" of the except branch inside the for loop
AfterFileFailed(files, i) == i + 1

\* the seconds slept so far between the attempts on the current file
CurrentBackoff == IF attempt = 0 THEN <<>> ELSE last_transfer.backoff

\* one file is recorded as failed, after tries attempts and with the given
\* TransferError, and the loop moves on
FileFailed(tries, error) ==
    /\ transfer_stats' = [transfer_stats EXCEPT
                             !.failed_transfers = @ + 1]
    /\ file_idx' = AfterFileFailed(file_list, file_idx)
    /\ attempt' = 0
    /\ last_transfer' = [tries |-> tries,
                         backoff |-> IF tries = 0 THEN <<>>
                                     ELSE CurrentBackoff,
                         outcome |-> "failed", error |-> error]
    /\ UNCHANGED transferred_files

\* one file is recorded in the returned map and the loop moves on
FileTransferred ==
    /\ transferred_files' = transferred_files \cup {file_list[file_idx]}
    /\ transfer_stats' = [transfer_stats EXCEPT !.transferred = @ + 1]
    /\ file_idx' = file_idx + 1
    /\ attempt' = 0
    /\ last_transfer' = [tries |-> attempt + 1, backoff |-> CurrentBackoff,
                         outcome |-> "transferred", error |-> ""]

\* the retry test with one attempt too many
IsLastAttemptOffByOne(cfg, a) == a >= cfg.transfer_retry_times

\* "if attempt < self.config.transfer_retry_times - 1" is false
IsLastAttempt(cfg, a) == a >= cfg.transfer_retry_times - 1

\* the except branch of the retry loop: sleep 2 ** attempt seconds and retry,
\* or re-raise on the last attempt
AttemptFailed ==
    IF ~IsLastAttempt(transfer_config, attempt)
    THEN /\ attempt' = attempt + 1
         /\ last_transfer' = [tries |-> attempt + 1,
                              backoff |-> Append(CurrentBackoff, 2 ^ attempt),
                              outcome |-> "retrying", error |-> ""]
         /\ UNCHANGED <<file_idx, transferred_files, transfer_stats>>
    ELSE FileFailed(attempt + 1, "attempt_failed")

\* upload_files / download_files up to the loop: creating the directory or
\* opening the SFTP channel may raise, which ends the call with TransferError
OpenSftp ==
    /\ xfer_pc = "start"
    /\ \E ok \in BOOLEAN :
          xfer_pc' = IF ok THEN "loop" ELSE "raised"
    /\ file_idx' = 1
    /\ UNCHANGED <<transfer_config, direction, file_list, attempt, attempted,
                   destination, transferred_files, transfer_stats,
                   last_transfer>>
    /\ UNCHANGED nonXferVars

\* _upload_single_file / _download_single_file finding no source file: it
\* raises before the retry loop
SourceMissing ==
    /\ xfer_pc = "loop"
    /\ file_idx <= Len(file_list)
    /\ attempt = 0
    /\ attempted' = Append(attempted, file_idx)
    /\ FileFailed(0, "source_missing")
    /\ UNCHANGED <<transfer_config, direction, file_list, xfer_pc,
                   destination>>
    /\ UNCHANGED nonXferVars

\* the retry loop of a file with transfer_retry_times = 0: range(0) is empty
\* and the raise after the loop is reached at once
NoAttemptAllowed ==
    /\ xfer_pc = "loop"
    /\ file_idx <= Len(file_list)
    /\ transfer_config.transfer_retry_times = 0
    /\ attempted' = Append(attempted, file_idx)
    /\ FileFailed(0, "retries_exhausted")
    /\ UNCHANGED <<transfer_config, direction, file_list, xfer_pc,
                   destination>>
    /\ UNCHANGED nonXferVars

\* one pass of the retry loop for the current file: sftp.put / sftp.get (or
\* the rewrite of a script) raises, or writes the bytes, intact or damaged;
\* then the integrity check, whose hashing may raise
TransferAttempt ==
    /\ xfer_pc = "loop"
    /\ file_idx <= Len(file_list)
    /\ attempt < transfer_config.transfer_retry_times
    /\ LET path == file_list[file_idx]
           payload == Payload(direction, path)
       IN /\ attempted' = IF attempt = 0 THEN Append(attempted, file_idx)
                          ELSE attempted
          /\ \/ /\ AttemptFailed
                /\ UNCHANGED destination
             \/ \E written \in {payload, Damaged(payload)},
                   hash_raises \in BOOLEAN :
                   /\ destination' = [destination EXCEPT ![path] = written]
                   /\ IF VerificationApplies(transfer_config, direction, path)
                         => VerifyFileIntegrity(SourceBytes(path), written,
                                                hash_raises)
                      THEN FileTransferred
                      ELSE AttemptFailed
    /\ UNCHANGED <<transfer_config, direction, file_list, xfer_pc>>
    /\ UNCHANGED nonXferVars

\* the end of the loop: sftp.close() and the return of the map
ReturnTransferred ==
    /\ xfer_pc = "loop"
    /\ file_idx > Len(file_list)
    /\ xfer_pc' = "returned"
    /\ UNCHANGED <<transfer_config, direction, file_list, file_idx, attempt,
                   attempted, destination, transferred_files, transfer_stats,
                   last_transfer>>
    /\ UNCHANGED nonXferVars

InitTransfer ==
    /\ WorkflowIdle
    /\ scheduler_type = "SLURM"
    /\ DriverIdle
    /\ AllocIdle
    /\ MonitorIdle
    /\ CallIdle
    /\ HistoryIdle
    /\ StepOnlyIdle
    /\ transfer_config \in [transfer_retry_times : 0..MaxRetries,
                            enable_checksum_verification : BOOLEAN]
    /\ direction \in {"upload", "download"}
    /\ \E n \in 0..MaxFiles : file_list \in [1..n -> Files]
    /\ xfer_pc = "start"
    /\ file_idx = 0
    /\ attempt = 0
    /\ attempted = <<>>
    /\ destination = [path \in Files |-> <<>>]
    /\ transferred_files = {}
    /\ transfer_stats = [transferred |-> 0, failed_transfers |-> 0]
    /\ last_transfer = [tries |-> 0, backoff |-> <<>>, outcome |-> "",
                        error |-> ""]

NextTransfer ==
    \/ OpenSftp
    \/ SourceMissing
    \/ NoAttemptAllowed
    \/ TransferAttempt
    \/ ReturnTransferred

SpecTransfer == InitTransfer /\ [][NextTransfer]_vars

\* C19: with checksum verification enabled, every non-script file the call
\* reports as transferred has destination bytes equal to its source bytes.
C19_VerifiedBytesEqual ==
    (xfer_pc \in {"loop", "returned"}
        /\ transfer_config.enable_checksum_verification) =>
        \A path \in transferred_files :
            ~IsScript(path) => destination[path] = SourceBytes(path)

\* a list that names no path twice
NoDuplicates(files) ==
    \A i, j \in 1..Len(files) : files[i] = files[j] => i = j

\* C33: upload_files returns, so that the upload_files step completes and
\* submit_jobs is started, only if every script of the list was uploaded; when
\* a script still fails after all its retries the call fails.
C33_UploadFailsWhenScriptFails ==
    (direction = "upload" /\ xfer_pc = "returned") =>
        \A i \in 1..Len(file_list) :
            IsScript(file_list[i]) => file_list[i] \in transferred_files

\* C20 as stated: after the call every file of the list was attempted and the
\* size of the returned map plus the failures recorded equals the number of
\* files in the list.
C20_MapPlusFailures ==
    xfer_pc = "returned" =>
        /\ attempted = [i \in 1..Len(file_list) |-> i]
        /\ Cardinality(transferred_files) + transfer_stats.failed_transfers
              = Len(file_list)

\* C20 (amended): after the call every file of the list was attempted in
\* order, the successes counted plus the failures recorded equal the number
\* of files in the list, the returned map holds the paths that succeeded, and
\* its size plus the failures equals the length of a list without repeated
\* paths.
C20_SuccessesPlusFailures ==
    xfer_pc = "returned" =>
        /\ attempted = [i \in 1..Len(file_list) |-> i]
        /\ transfer_stats.transferred + transfer_stats.failed_transfers
              = Len(file_list)
        /\ transferred_files \subseteq Range(file_list)
        /\ Cardinality(transferred_files) <= transfer_stats.transferred
        /\ NoDuplicates(file_list) =>
              Cardinality(transferred_files)
                  + transfer_stats.failed_transfers = Len(file_list)

\* the first file of a two-file list exhausted its retries and the second
\* one was still transferred
C20_Witness ==
    /\ xfer_pc = "returned"
    /\ file_list = <<"case.def", "case.res">>
    /\ transfer_config.transfer_retry_times = MaxRetries
    /\ transferred_files = {"case.res"}
    /\ transfer_stats.failed_transfers = 1

\* the waits of a retry loop that follows the back-off rule: 2^a seconds
\* after the failed attempt a, counted from 0
BackoffRule(t) ==
    /\ t.backoff = [a \in 1..Len(t.backoff) |-> 2 ^ (a - 1)]
    /\ Len(t.backoff) = IF t.outcome = "retrying" THEN t.tries
                        ELSE t.tries - 1

\* the attempts of a retry loop: at least one, at most retry_times, more to
\* come only before the last one, the error only after the last one
AttemptRule(t, retry_times) ==
    /\ t.tries >= 1
    /\ t.tries <= retry_times
    /\ t.outcome = "retrying" => t.tries < retry_times
    /\ t.outcome = "failed" => t.tries = retry_times

MaxCycles == 1600

\* "if len(self.monitoring_history) > 1000"
HistoryCap == 1000

\* "self.monitoring_history[-500:]"
HistoryKeep == 500

\* the number of the cycle of the last snapshot recorded (0: none yet)
LastCycle(history) == IF history = <<>> THEN 0 ELSE history[Len(history)]

\* the length limit of _record_monitoring_snapshot left out
LimitHistoryUnbounded(history) == history

\* the length limit of _record_monitoring_snapshot
LimitHistory(history) ==
    IF Len(history) > HistoryCap
    THEN SubSeq(history, Len(history) - HistoryKeep + 1, Len(history))
    ELSE history

\* _record_monitoring_snapshot at the end of one more poll cycle
RecordMonitoringSnapshot ==
    /\ LastCycle(monitoring_history) < MaxCycles
    /\ monitoring_history' =
          LimitHistory(Append(monitoring_history,
                              LastCycle(monitoring_history) + 1))
    /\ UNCHANGED nonHistVars

InitHistory ==
    /\ WorkflowIdle
    /\ scheduler_type = "SLURM"
    /\ DriverIdle
    /\ AllocIdle
    /\ MonitorIdle
    /\ CallIdle
    /\ TransferIdle
    /\ StepOnlyIdle
    /\ monitoring_history = <<>>

NextHistory == RecordMonitoringSnapshot

SpecHistory == InitHistory /\ [][NextHistory]_vars

\* C27 as stated: the history never holds more than 1000 snapshots, and once
\* the cap has been hit it still holds snapshots of the early part of the run
\* (the first half of the cycles so far) next to the recent ones.
C27_HistoryDecimated ==
    /\ Len(monitoring_history) <= HistoryCap
    /\ LastCycle(monitoring_history) > HistoryCap =>
          \E k \in 1..Len(monitoring_history) :
              2 * monitoring_history[k] <= LastCycle(monitoring_history)

\* C27 (amended): one snapshot is recorded per cycle and the history never
\* holds more than 1000 snapshots; when a snapshot makes it longer than 1000
\* the history is cut to its 500 most recent snapshots, so it always holds
\* the snapshots of the latest cycles without a gap, at least 500 of them
\* once the cap has been hit.
C27_HistoryKeepsRecent ==
    /\ Len(monitoring_history) <= HistoryCap
    /\ \A k \in 1..Len(monitoring_history) :
          monitoring_history[k]
              = LastCycle(monitoring_history) - Len(monitoring_history) + k
    /\ IF LastCycle(monitoring_history) > HistoryCap
       THEN Len(monitoring_history) >= HistoryKeep
       ELSE Len(monitoring_history) = LastCycle(monitoring_history)

\* the snapshot of cycle 1001 has just cut the history to 500 snapshots
C27_Witness ==
    /\ LastCycle(monitoring_history) = HistoryCap + 1
    /\ Len(monitoring_history) = HistoryKeep
    /\ monitoring_history[1] = HistoryCap - HistoryKeep + 2

\* ------------------------------------------------------------------------
\* PBSNodeAllocator (pbs_node_allocator.py): the nodes spec of one PBS job
\* ------------------------------------------------------------------------
MaxPbsNodes == 3

\* ppn of a default node when the configuration has no ppn
DefaultPpn == 28

\* a node name is its prefix and its number: node41 is <<"node", 41>>
NodeName(prefix, num) == [prefix |-> prefix, num |-> num]

\* _convert_to_short_name: node41 -> n41, every other name as it is
ConvertToShortName(node_name) ==
    IF node_name.prefix = "node" THEN NodeName("n", node_name.num)
    ELSE node_name

RECURSIVE BuildNodesSpec(_, _)
\* build_nodes_spec: "<short name>:ppn=<ppn>" of the available specs of
\* node_specs[i..], joined by "+"; a part is its name and its ppn
BuildNodesSpec(node_specs, i) ==
    IF i > Len(node_specs) THEN <<>>
    ELSE (IF node_specs[i].available
          THEN <<[node_name |-> ConvertToShortName(node_specs[i].node_name),
                  ppn |-> node_specs[i].ppn]>>
          ELSE <<>>) \o BuildNodesSpec(node_specs, i + 1)

\* PBSAllocationResult; load_distribution lists the load of allocated_nodes
PbsAllocationResult(nodes_spec, total_cpus, allocated_nodes, loads) ==
    [nodes_spec |-> nodes_spec, total_cpus |-> total_cpus,
     node_count |-> Len(allocated_nodes),
     allocated_nodes |-> allocated_nodes, load_distribution |-> loads]

\* PBSAllocationResult("", 0, 0, [], {}, ...)
NoPbsAllocation == PbsAllocationResult(<<>>, 0, <<>>, <<>>)

\* min_cores of the configuration, required_cpus when it has none (0)
MinCores(cfg, required_cpus) ==
    IF cfg.min_cores = 0 THEN required_cpus ELSE cfg.min_cores

RECURSIVE SmallestNode(_, _, _)
\* the best_node loop of _allocate_single_node over suitable[i..]: the node
\* of the least ppn, the first of them in list order
SmallestNode(suitable, i, best) ==
    IF i > Len(suitable) THEN best
    ELSE SmallestNode(suitable, i + 1,
                      IF suitable[i].ppn < suitable[best].ppn THEN i
                      ELSE best)

\* _allocate_single_node
PbsAllocateSingleNode(cfg, node_list, required_cpus) ==
    LET suitable == SelectSeq(node_list,
                       LAMBDA n : n.available
                                  /\ n.ppn >= MinCores(cfg, required_cpus))
    IN  IF suitable = <<>> THEN NoPbsAllocation
        ELSE LET best_node == suitable[SmallestNode(suitable, 1, 1)]
             IN  PbsAllocationResult(
                     <<[node_name |-> ConvertToShortName(best_node.node_name),
                        ppn |-> best_node.ppn]>>,
                     best_node.ppn, <<best_node.node_name>>,
                     <<best_node.ppn>>)

RECURSIVE InsertByPpnDesc(_, _)
InsertByPpnDesc(sorted, n) ==
    IF sorted = <<>> THEN <<n>>
    ELSE IF Head(sorted).ppn >= n.ppn
         THEN <<Head(sorted)>> \o InsertByPpnDesc(Tail(sorted), n)
         ELSE <<n>> \o sorted

RECURSIVE SortByPpnDesc(_, _)
\* sorted(available_nodes, key=lambda x: x.ppn, reverse=True), a stable sort,
\* of nodes[1..k]
SortByPpnDesc(nodes, k) ==
    IF k = 0 THEN <<>>
    ELSE InsertByPpnDesc(SortByPpnDesc(nodes, k - 1), nodes[k])

\* next((n for n in sorted_nodes if n.ppn == ppn and n.available), None):
\* the sequence holding that node, or the empty sequence
FirstFree(sorted_nodes, ppn) ==
    LET found == SelectSeq(sorted_nodes,
                           LAMBDA n : n.ppn = ppn /\ n.available)
    IN  IF found = <<>> THEN <<>> ELSE <<found[1]>>

RECURSIVE MultiNodeLoop(_, _, _, _)
\* the standard loop of _allocate_multi_node over sorted_nodes[i..]: the
\* nodes taken and their loads, large nodes first
MultiNodeLoop(sorted_nodes, i, remaining_cpus, acc) ==
    IF i > Len(sorted_nodes) THEN acc
    ELSE IF ~sorted_nodes[i].available \/ remaining_cpus <= 0
         THEN MultiNodeLoop(sorted_nodes, i + 1, remaining_cpus, acc)
         ELSE LET node == sorted_nodes[i]
                  cpus_for_this_node ==
                      IF remaining_cpus < node.ppn THEN remaining_cpus
                      ELSE node.ppn
              IN  IF cpus_for_this_node > 0
                  THEN MultiNodeLoop(sorted_nodes, i + 1,
                           remaining_cpus - cpus_for_this_node,
                           [specs |-> Append(acc.specs, node),
                            loads |-> Append(acc.loads, cpus_for_this_node)])
                  ELSE MultiNodeLoop(sorted_nodes, i + 1, remaining_cpus,
                                     acc)

RECURSIVE SumPpn(_, _)
SumPpn(specs, i) ==
    IF i > Len(specs) THEN 0 ELSE specs[i].ppn + SumPpn(specs, i + 1)

\* the special case of _allocate_multi_node left out
PbsAllocateMultiNodePlain(node_list, required_cpus) ==
    LET sorted_nodes == SortByPpnDesc(node_list, Len(node_list))
        taken == MultiNodeLoop(sorted_nodes, 1, required_cpus,
                               [specs |-> <<>>, loads |-> <<>>])
    IN  PbsAllocationResult(BuildNodesSpec(taken.specs, 1),
                            SumPpn(taken.specs, 1),
                            [k \in 1..Len(taken.specs) |->
                                taken.specs[k].node_name],
                            taken.loads)

\* _allocate_multi_node
PbsAllocateMultiNode(node_list, required_cpus) ==
    LET sorted_nodes == SortByPpnDesc(node_list, Len(node_list))
        node_28 == FirstFree(sorted_nodes, 28)
        node_16 == FirstFree(sorted_nodes, 16)
        taken == MultiNodeLoop(sorted_nodes, 1, required_cpus,
                               [specs |-> <<>>, loads |-> <<>>])
    IN  IF required_cpus \in {32, 44} /\ node_28 # <<>> /\ node_16 # <<>>
        THEN PbsAllocationResult(BuildNodesSpec(node_28 \o node_16, 1),
                 node_28[1].ppn + node_16[1].ppn,
                 <<node_28[1].node_name, node_16[1].node_name>>,
                 IF required_cpus = 32 THEN <<28, 4>> ELSE <<28, 16>>)
        ELSE PbsAllocationResult(BuildNodesSpec(taken.specs, 1),
                                 SumPpn(taken.specs, 1),
                                 [k \in 1..Len(taken.specs) |->
                                     taken.specs[k].node_name],
                                 taken.loads)

\* _allocate_hybrid: the single node if there is one, several nodes if not
PbsAllocateHybrid(cfg, node_list, required_cpus) ==
    LET single_result ==
            PbsAllocateSingleNode(cfg, node_list, required_cpus)
    IN  IF single_result.node_count > 0 THEN single_result
        ELSE PbsAllocateMultiNode(node_list, required_cpus)

RECURSIVE AutoLoads(_, _, _)
\* the load_distribution loop of _allocate_auto over allocated_specs[i..]
AutoLoads(allocated_specs, required_cpus, i) ==
    IF i > Len(allocated_specs) THEN <<>>
    ELSE LET load == (required_cpus \div Len(allocated_specs))
                     + (IF i - 1 < required_cpus % Len(allocated_specs)
                        THEN 1 ELSE 0)
         IN  <<IF load < allocated_specs[i].ppn THEN load
               ELSE allocated_specs[i].ppn>>
             \o AutoLoads(allocated_specs, required_cpus, i + 1)

\* _allocate_auto: the nodes_spec of the configuration as it is written
\* there, the hybrid strategy when the configuration has none
PbsAllocateAuto(cfg, node_list, required_cpus) ==
    IF cfg.nodes_spec = <<>>
    THEN PbsAllocateHybrid(cfg, node_list, required_cpus)
    ELSE PbsAllocationResult(
             [k \in 1..Len(cfg.nodes_spec) |->
                 [node_name |-> cfg.nodes_spec[k].node_name,
                  ppn |-> cfg.nodes_spec[k].ppn]],
             SumPpn(cfg.nodes_spec, 1),
             [k \in 1..Len(cfg.nodes_spec) |-> cfg.nodes_spec[k].node_name],
             AutoLoads(cfg.nodes_spec, required_cpus, 1))

\* the default nodes node1..node<nodes> of allocate_for_job
DefaultPbsNodes(cfg) ==
    [i \in 1..cfg.nodes |->
        [node_name |-> NodeName("node", i), ppn |-> DefaultPpn,
         available |-> TRUE]]

\* allocate_for_job called with a list of nodes
AllocateForJob(cfg, job, node_list) ==
    LET nodes == IF node_list = <<>> THEN DefaultPbsNodes(cfg)
                 ELSE node_list
        required_cpus == job.allocated_cpus
    IN  CASE cfg.node_allocation_strategy = "single_node" ->
                 PbsAllocateSingleNode(cfg, nodes, required_cpus)
          [] cfg.node_allocation_strategy = "multi_node" ->
                 PbsAllocateMultiNode(nodes, required_cpus)
          [] cfg.node_allocation_strategy = "hybrid" ->
                 PbsAllocateHybrid(cfg, nodes, required_cpus)
          [] OTHER -> PbsAllocateAuto(cfg, nodes, required_cpus)

\* the node records a caller hands to allocate_for_job
PbsNodeSpecs ==
    UNION {[node_name : {NodeName("node", 41)}, ppn : {28},
            available : BOOLEAN],
           [node_name : {NodeName("node", 42)}, ppn : {28, 44},
            available : BOOLEAN],
           [node_name : {NodeName("node", 61), NodeName("n", 62)},
            ppn : {16}, available : BOOLEAN]}

\* the configurations of the allocator: node_allocation_strategy (hybrid
\* when absent), min_cores (0: absent), nodes_spec (<<>>: absent), nodes
PbsConfigs ==
    [node_allocation_strategy : {"single_node", "multi_node", "hybrid",
                                 "smart_queue"},
     min_cores : {0, 16, 44},
     nodes_spec : {<<>>, <<[node_name |-> NodeName("node", 3), ppn |-> 28,
                            available |-> TRUE]>>},
     nodes : {1, 2}]

CallAllocateForJob ==
    /\ ~call_done
    /\ call_args.op = "allocate_for_job"
    /\ call_result' = AllocateForJob(call_args.config, call_args.job,
                                     call_args.available_nodes)
    /\ call_done' = TRUE
    /\ UNCHANGED call_args
    /\ UNCHANGED <<wfVars, drvVars, allocVars, monVars, xferVars,
                   histVars, stepVars>>

InitPbsAlloc ==
    /\ WorkflowIdle
    /\ scheduler_type = "PBS"
    /\ DriverIdle
    /\ AllocIdle
    /\ MonitorIdle
    /\ TransferIdle
    /\ HistoryIdle
    /\ StepOnlyIdle
    /\ \E n \in 0..MaxPbsNodes :
       \E nodes \in [1..n -> PbsNodeSpecs] :
       \E cfg \in PbsConfigs :
       \E cpus \in {28, 32, 44} :
          /\ cfg.nodes = 1 \/ n = 0
          /\ cfg.nodes_spec = <<>>
                 \/ cfg.node_allocation_strategy = "smart_queue"
          /\ call_args = [op |-> "allocate_for_job", config |-> cfg,
                       job |-> [allocated_cpus |-> cpus],
                       available_nodes |-> nodes]
    /\ call_result = <<>>
    /\ call_done = FALSE

NextPbsAlloc == CallAllocateForJob

SpecPbsAlloc == InitPbsAlloc /\ [][NextPbsAlloc]_vars

\* some node of the list is free and has ppn cores
HasFree(nodes, ppn) ==
    \E i \in 1..Len(nodes) : nodes[i].ppn = ppn /\ nodes[i].available

\* the spec "n_a:ppn=28+n_b:ppn=16" of a free 28-core node a and a free
\* 16-core node b of the list
IsSpecialFit(nodes, nodes_spec) ==
    \E a, b \in 1..Len(nodes) :
        /\ nodes[a].ppn = 28 /\ nodes[a].available
        /\ nodes[b].ppn = 16 /\ nodes[b].available
        /\ nodes_spec = <<[node_name |-> ConvertToShortName(nodes[a].node_name),
                           ppn |-> 28],
                          [node_name |-> ConvertToShortName(nodes[b].node_name),
                           ppn |-> 16]>>

ReachesMultiNode(cfg, nodes, required_cpus) ==
    LET no_single == \A i \in 1..Len(nodes) :
                        ~(nodes[i].available
                          /\ nodes[i].ppn >= MinCores(cfg, required_cpus))
    IN  \/ cfg.node_allocation_strategy = "multi_node"
        \/ cfg.node_allocation_strategy = "hybrid" /\ no_single
        \/ /\ cfg.node_allocation_strategy \notin {"single_node", "multi_node"}
           /\ cfg.nodes_spec = <<>>
           /\ no_single

MaxGroupJobs == 2

\* PBSNodeSpec(node_name=node["name"], ppn=node.get("cpus", 28), True, 0)
ToPbsNodeSpec(node) ==
    [node_name |-> node.name, ppn |-> node.cpus, available |-> TRUE]

\* the nodes of the cluster status handed to allocate_for_job: the available
\* nodes the tracker does not hold; when there is none, the first available
\* node, or the first node when no node is available
NodesForJob(nodes_list, tracker) ==
    LET free == SelectSeq(nodes_list,
                    LAMBDA n : n.available /\ n.name \notin tracker)
        best_real_nodes == SelectSeq(nodes_list, LAMBDA n : n.available)
        fallback_node == IF best_real_nodes # <<>> THEN best_real_nodes[1]
                         ELSE nodes_list[1]
    IN  IF free # <<>> THEN [k \in 1..Len(free) |-> ToPbsNodeSpec(free[k])]
        ELSE <<ToPbsNodeSpec(fallback_node)>>

\* the nodes spec "1:ppn=<allocated_cpus>": a number of nodes, no node name
CountSpec(job) ==
    <<[node_name |-> NodeName("", 1), ppn |-> job.allocated_cpus]>>

\* the PBS branch of _prepare_template_variables in the normal mode, for a
\* cluster status that lists nodes: the nodes spec of the job and the
\* tracker after it
PrepareNodesSpec(cfg, job, nodes_list, tracker) ==
    LET allocation_result ==
            AllocateForJob(cfg, job, NodesForJob(nodes_list, tracker))
    IN  IF allocation_result.nodes_spec = <<>>
        THEN [nodes_spec |-> IF cfg.nodes_spec = <<>> THEN CountSpec(job)
                             ELSE [k \in 1..Len(cfg.nodes_spec) |->
                                     [node_name |->
                                          cfg.nodes_spec[k].node_name,
                                      ppn |-> cfg.nodes_spec[k].ppn]],
              tracker |-> tracker]
        ELSE [nodes_spec |-> allocation_result.nodes_spec,
              tracker |-> tracker \cup
                  {allocation_result.allocated_nodes[k] :
                      k \in 1..Len(allocation_result.allocated_nodes)}]

RECURSIVE GenerateGroup(_, _, _, _, _)
\* the loop of _generate_parallel_jobs (of one batch of _generate_batch_jobs)
\* over jobs[i..]: the nodes spec of each job, in order
GenerateGroup(cfg, jobs, nodes_list, tracker, i) ==
    IF i > Len(jobs) THEN <<>>
    ELSE LET prepared == PrepareNodesSpec(cfg, jobs[i], nodes_list, tracker)
         IN  <<prepared.nodes_spec>>
             \o GenerateGroup(cfg, jobs, nodes_list, prepared.tracker, i + 1)

\* the node records of a cluster status
ClusterNodeRecords ==
    UNION {[name : {NodeName("node", 41)}, cpus : {28},
            available : BOOLEAN],
           [name : {NodeName("node", 42)}, cpus : {28, 44},
            available : BOOLEAN],
           [name : {NodeName("node", 61), NodeName("n", 62)},
            cpus : {16}, available : BOOLEAN]}

CallGenerateGroup ==
    /\ ~call_done
    /\ call_args.op = "generate_group"
    /\ call_result' = GenerateGroup(call_args.config, call_args.jobs,
                                    call_args.cluster_status, {}, 1)
    /\ call_done' = TRUE
    /\ UNCHANGED call_args
    /\ UNCHANGED <<wfVars, drvVars, allocVars, monVars, xferVars,
                   histVars, stepVars>>

\* the groups of the parallel and the batch strategy: no more jobs than the
\* cluster status has available nodes, no node listed twice
InitPbsGroup ==
    /\ WorkflowIdle
    /\ scheduler_type = "PBS"
    /\ DriverIdle
    /\ AllocIdle
    /\ MonitorIdle
    /\ TransferIdle
    /\ HistoryIdle
    /\ StepOnlyIdle
    /\ \E n \in 1..MaxPbsNodes :
       \E nodes \in [1..n -> ClusterNodeRecords] :
       \E cfg \in PbsConfigs :
       \E cpus \in {16, 28, 44} :
       \E j \in 1..MaxGroupJobs :
          /\ \A a, b \in 1..n : nodes[a].name = nodes[b].name => a = b
          /\ j <= Cardinality({a \in 1..n : nodes[a].available})
          /\ cfg.nodes = 1
          /\ call_args = [op |-> "generate_group", config |-> cfg,
                          jobs |-> [k \in 1..j |->
                                       [allocated_cpus |-> cpus]],
                          cluster_status |-> nodes]
    /\ call_result = <<>>
    /\ call_done = FALSE

NextPbsGroup == CallGenerateGroup

SpecPbsGroup == InitPbsGroup /\ [][NextPbsGroup]_vars

\* the nodes a nodes spec names
NodesNamed(nodes_spec) ==
    {nodes_spec[k].node_name : k \in 1..Len(nodes_spec)}
        \ {NodeName("", 1)}

\* the cluster status has a node with enough cores for each job of the group
EnoughNodes(nodes_list, jobs) ==
    Len(jobs) <= Cardinality({a \in 1..Len(nodes_list) :
                                 /\ nodes_list[a].available
                                 /\ nodes_list[a].cpus
                                        >= jobs[1].allocated_cpus})

\* C39: when the cluster has at least as many available nodes with enough
\* cores for one job as the group has jobs, no node appears in the nodes
\* spec of two different jobs of the group.
C39_NoNodeInTwoSpecs ==
    (call_done /\ EnoughNodes(call_args.cluster_status, call_args.jobs))
    => \A a, b \in 1..Len(call_result) :
          a # b => NodesNamed(call_result[a]) \cap NodesNamed(call_result[b])
                   = {}

\* ------------------------------------------------------------------------
\* run --steps: run_workflow_steps (main.py) calls execute_step_only
\* (workflow_orchestrator.py) for each step named, on one orchestrator
\* ------------------------------------------------------------------------
MaxSteps == 3

\* available_steps of run_workflow_steps
AvailableSteps ==
    {"connect_server", "verify_cfx", "generate_pre", "generate_def",
     "query_cluster", "generate_scripts", "upload_files", "submit_jobs",
     "monitor_jobs"}

\* the branches of execute_step_only that begin with
\* "if not self.ssh_client: self._connect_to_server()"
ConnectsWhenNone ==
    {"upload_files", "submit_jobs", "monitor_jobs", "query_cluster"}

\* the step hands self.ssh_client to a remote command or a transfer; client
\* is self.ssh_client when the branch has done its connecting
UsesSession(c, s, client) ==
    CASE s = "verify_cfx" -> ~c.skip_cfx_verification
      [] s = "generate_def" -> c.cfx_mode = "server"
      [] s = "generate_scripts" -> c.enable_node_detection /\ client # "none"
      [] s \in ConnectsWhenNone -> TRUE
      [] OTHER -> FALSE

\* the branches that catch the exception of a command on a dead session:
\* generate_scripts logs a warning, _get_submitted_jobs returns []
SwallowsSessionError == {"generate_scripts", "monitor_jobs"}

\* the finally block of execute_step_only: _cleanup_resources closes the
\* session after every step but connect_server and query_cluster, and
\* leaves self.ssh_client set
AfterStep(s, client) ==
    IF s \in {"connect_server", "query_cluster"} \/ client = "none"
    THEN client
    ELSE "closed"

\* one pass of the loop of run_workflow_steps: execute_step_only(step) with
\* its finally block. connected is whether _connect_to_server succeeds when
\* it is called, local_ok whether the step gets as far as its remote part,
\* ok whether the rest of the step returns.
ExecuteStepOnly ==
    /\ steps_result = "running"
    /\ step_idx \in 1..Len(step_names)
    /\ \E connected, local_ok, ok \in BOOLEAN :
        LET s == step_names[step_idx]
            connects == \/ s = "connect_server"
                        \/ s \in ConnectsWhenNone /\ ssh_client = "none"
            client == IF connects
                      THEN (IF connected THEN "open" ELSE "closed")
                      ELSE ssh_client
            raised_connect == connects /\ ~connected
            uses == /\ ~raised_connect
                    /\ local_ok
                    /\ UsesSession(config, s, client)
            returned == /\ ~raised_connect
                        /\ local_ok
                        /\ ok
                        /\ (uses /\ client # "open")
                               => s \in SwallowsSessionError
        IN /\ ~connects => connected
           /\ s # "submit_jobs" => local_ok
           /\ ~local_ok => ~ok
           /\ raised_connect => ~ok
           /\ (uses /\ client # "open" /\ s \notin SwallowsSessionError)
                  => ~ok
           /\ remote_uses' = IF uses THEN remote_uses \cup {client}
                             ELSE remote_uses
           /\ ssh_client' = AfterStep(s, client)
           /\ IF returned
              THEN /\ step_idx' = step_idx + 1
                   /\ UNCHANGED steps_result
              ELSE /\ steps_result' = "failed"
                   /\ UNCHANGED step_idx
    /\ UNCHANGED step_names
    /\ UNCHANGED <<wfVars, nonStepVars>>

\* run_workflow_steps returns True after the last step
FinishSteps ==
    /\ steps_result = "running"
    /\ step_idx > Len(step_names)
    /\ steps_result' = "done"
    /\ UNCHANGED <<step_names, step_idx, ssh_client, remote_uses>>
    /\ UNCHANGED <<wfVars, nonStepVars>>

InitStepOnly ==
    /\ config \in {c \in Configs : c.enable_monitoring /\ c.cfx_pre_executable}
    /\ validation_errors = {}
    /\ pressure_list = <<>>
    /\ wf_pc = "start"
    /\ current_step = ""
    /\ completed_steps = <<>>
    /\ failed_steps = <<>>
    /\ ssh_open = FALSE
    /\ def_files = <<>>
    /\ cfx_returncode = -1
    /\ report_written = FALSE
    /\ wf_result = "none"
    /\ exit_code = -1
    /\ PipeIdle
    /\ scheduler_type = "SLURM"
    /\ DriverIdle
    /\ AllocIdle
    /\ MonitorIdle
    /\ CallIdle
    /\ TransferIdle
    /\ HistoryIdle
    /\ \E n \in 1..MaxSteps : step_names \in [1..n -> AvailableSteps]
    /\ step_idx = 1
    /\ ssh_client = "none"
    /\ remote_uses = {}
    /\ steps_result = "running"

NextStepOnly ==
    \/ ExecuteStepOnly
    \/ FinishSteps

SpecStepOnly == InitStepOnly /\ [][NextStepOnly]_vars

\* C34: when several steps are run one after another in step-only mode,
\* every step that issues a remote command or a transfer does so on an SSH
\* session that is open at that moment; a session closed by an earlier
\* step's cleanup is never used again without reconnecting.
C34_SessionOpenWhenUsed == remote_uses \subseteq {"open"}

====
